---- MODULE Spec2Model ----
(***************************************************************************)
(* A model of pkgcore's ebuild merge triggers (pkgcore/ebuild/triggers.py) *)
(* and the live filesystem helpers they use (pkgcore/fs/livefs.py).        *)
(*                                                                         *)
(* Python strings are sequences of one-character strings, so that prefix   *)
(* and suffix tests, path joins, splits, number formatting and parsing are *)
(* computed the way the code computes them.                                *)
(***************************************************************************)
EXTENDS Integers, Sequences, FiniteSets, TLC

VARIABLES
    pc,                 \* position of the running operation / call
    mode,               \* engine.mode: "install", "replace" or "uninstall"
    offset,             \* engine.offset
    envd,               \* the fragment files of <offset>/etc/env.d: name -> dict
    extra_protects,     \* the config/collision protect triggers' extra_protects
    extra_disables,     \* the config/collision protect triggers' extra_disables
    livefs,             \* the live filesystem: a set of fs entries, one per path
    install,            \* content set 'install'
    install_existing,   \* content set 'install_existing'
    old_cset,           \* content set 'old_cset'
    uninstall,          \* content set 'uninstall'
    uninstall_existing, \* content set 'uninstall_existing'
    new_cset,           \* content set 'new_cset'
    renames,            \* ConfigProtectInstall.renames, shared with the restore trigger
    warnings,           \* engine.observer.warn calls, in order
    raised,             \* the exception that ended the operation, or NoError
    install_pre,        \* the install set as it was handed to the operation
    args,               \* arguments of the function under call
    ret,                \* its return value, or what it has yielded so far
    frame,              \* its local variables while it runs
    written             \* generated files: path -> lines written

vars == <<pc, mode, offset, envd, extra_protects, extra_disables, livefs,
          install, install_existing, old_cset, uninstall, uninstall_existing,
          new_cset, renames, warnings, raised, install_pre, args, ret, frame,
          written>>

\* raised when no exception ended the operation
NoError == [type |-> "none", paths |-> <<>>]

-----------------------------------------------------------------------------
(* Strings *)

\* the characters the model uses, in ASCII order
Ascii ==
    << " ", ".", "/", "0", "1", "2", "3", "4", "5", "6", "7", "8", "9", ":",
       "A", "B", "C", "D", "E", "F", "G", "H", "I", "J", "K", "L", "M", "N",
       "O", "P", "Q", "R", "S", "T", "U", "V", "W", "X", "Y", "Z", "_",
       "a", "b", "c", "d", "e", "f", "g", "h", "i", "j", "k", "l", "m", "n",
       "o", "p", "q", "r", "s", "t", "u", "v", "w", "x", "y", "z", "~" >>

Ord(c) == CHOOSE i \in 1..Len(Ascii) : Ascii[i] = c

Digits == <<"0", "1", "2", "3", "4", "5", "6", "7", "8", "9">>

IsDigit(c) == \E i \in 1..10 : Digits[i] = c

DigitVal(c) == (CHOOSE i \in 1..10 : Digits[i] = c) - 1

\* str.startswith / str.endswith
StartsWith(s, p) == Len(p) <= Len(s) /\ SubSeq(s, 1, Len(p)) = p

EndsWith(s, p) == Len(p) <= Len(s) /\ SubSeq(s, Len(s) - Len(p) + 1, Len(s)) = p

\* Python's s[i:j] with 0-based, end-exclusive, clamped indices
Slice(s, i, j) ==
    LET hi == IF j > Len(s) THEN Len(s) ELSE j
    IN  IF i >= hi THEN <<>> ELSE SubSeq(s, i + 1, hi)

\* str.rstrip(c) / str.lstrip(c) for a single character c
RECURSIVE RStrip(_, _)
RStrip(s, c) ==
    IF s # <<>> /\ s[Len(s)] = c THEN RStrip(SubSeq(s, 1, Len(s) - 1), c) ELSE s

RECURSIVE LStrip(_, _)
LStrip(s, c) ==
    IF s # <<>> /\ s[1] = c THEN LStrip(Tail(s), c) ELSE s

\* str.split(sep) for a one-character sep: empty fields are kept
RECURSIVE SplitOn(_, _)
SplitOn(s, sep) ==
    IF \A i \in 1..Len(s) : s[i] # sep
    THEN <<s>>
    ELSE LET i == CHOOSE k \in 1..Len(s) :
                      s[k] = sep /\ \A j \in 1..(k - 1) : s[j] # sep
         IN  <<SubSeq(s, 1, i - 1)>> \o SplitOn(SubSeq(s, i + 1, Len(s)), sep)

\* filter(None, seq): drop the empty strings
RECURSIVE FilterNone(_)
FilterNone(l) ==
    IF l = <<>> THEN <<>>
    ELSE IF Head(l) = <<>> THEN FilterNone(Tail(l))
    ELSE <<Head(l)>> \o FilterNone(Tail(l))

\* str.split() with no argument: split on runs of whitespace, no empty fields
SplitWS(s) == FilterNone(SplitOn(s, " "))

\* sep.join(l)
RECURSIVE Join(_, _)
Join(l, sep) ==
    IF l = <<>> THEN <<>>
    ELSE IF Len(l) = 1 THEN l[1]
    ELSE l[1] \o sep \o Join(Tail(l), sep)

\* the flattening of a list of lists (iflatten_instance over one level)
RECURSIVE Flatten(_)
Flatten(ll) == IF ll = <<>> THEN <<>> ELSE Head(ll) \o Flatten(Tail(ll))

\* Python's string order: lexicographic by character code
RECURSIVE StrLess(_, _)
StrLess(a, b) ==
    IF b = <<>> THEN FALSE
    ELSE IF a = <<>> THEN TRUE
    ELSE IF a[1] # b[1] THEN Ord(a[1]) < Ord(b[1])
    ELSE StrLess(Tail(a), Tail(b))

\* sorted(S) for a set of strings
RECURSIVE SortedStrs(_)
SortedStrs(S) ==
    IF S = {} THEN <<>>
    ELSE LET m == CHOOSE x \in S : \A y \in S \ {x} : StrLess(x, y)
         IN  <<m>> \o SortedStrs(S \ {m})

Range(f) == {f[i] : i \in DOMAIN f}

\* stable_unique(l): first occurrences, order kept
RECURSIVE stable_unique(_)
stable_unique(l) ==
    IF l = <<>> THEN <<>>
    ELSE LET r == stable_unique(SubSeq(l, 1, Len(l) - 1))
         IN  IF l[Len(l)] \in Range(r) THEN r ELSE Append(r, l[Len(l)])

-----------------------------------------------------------------------------
(* Paths *)

Sep == <<"/">>

\* os.path.join of two components
pjoin(a, b) ==
    IF StartsWith(b, Sep) THEN b
    ELSE IF a = <<>> \/ EndsWith(a, Sep) THEN a \o b
    ELSE a \o Sep \o b

\* index of the last '/' of s, 0 when there is none
LastSep(s) ==
    IF \A i \in 1..Len(s) : s[i] # "/" THEN 0
    ELSE CHOOSE i \in 1..Len(s) : s[i] = "/" /\ \A j \in (i + 1)..Len(s) : s[j] # "/"

\* os.path.dirname / os.path.basename
dirname(p) ==
    LET head == SubSeq(p, 1, LastSep(p))
    IN  IF head # <<>> /\ RStrip(head, "/") # <<>> THEN RStrip(head, "/") ELSE head

basename(p) == SubSeq(p, LastSep(p) + 1, Len(p))

\* the component loop of normpath: '' and '.' dropped, '..' pops
RECURSIVE NormComps(_, _, _)
NormComps(comps, acc, rooted) ==
    IF comps = <<>> THEN acc
    ELSE LET c == Head(comps)
         IN  IF c = <<>> \/ c = <<".">>
             THEN NormComps(Tail(comps), acc, rooted)
             ELSE IF c # <<".", ".">>
                     \/ (~rooted /\ acc = <<>>)
                     \/ (acc # <<>> /\ acc[Len(acc)] = <<".", ".">>)
             THEN NormComps(Tail(comps), Append(acc, c), rooted)
             ELSE IF acc # <<>>
             THEN NormComps(Tail(comps), SubSeq(acc, 1, Len(acc) - 1), rooted)
             ELSE NormComps(Tail(comps), acc, rooted)

\* snakeoil.osutils.normpath: os.path.normpath with a leading '//' collapsed
normpath(p) ==
    IF p = <<>> THEN <<".">>
    ELSE LET rooted == StartsWith(p, Sep)
             body   == Join(NormComps(SplitOn(p, "/"), <<>>, rooted), Sep)
             path   == IF rooted THEN Sep \o body ELSE body
         IN  IF path = <<>> THEN <<".">> ELSE path

-----------------------------------------------------------------------------
(* Filesystem entries and content sets *)

NoStr == <<>>

\* an fs object: fsFile / fsDir / fsSymlink, with the attributes the triggers read
fsFile(loc, m, sums) ==
    [kind |-> "file", location |-> loc, mode |-> m, chksums |-> sums, target |-> NoStr]

fsDir(loc, m) ==
    [kind |-> "dir", location |-> loc, mode |-> m, chksums |-> <<>>, target |-> NoStr]

fsSymlink(loc, m, tgt) ==
    [kind |-> "sym", location |-> loc, mode |-> m, chksums |-> <<>>, target |-> tgt]

\* a content set is a set of entries keyed by location
Locations(cset) == {e.location : e \in cset}

IsCset(cset) == \A a, b \in cset : a.location = b.location => a = b

CsContains(cset, loc) == loc \in Locations(cset)

CsGet(cset, loc) == CHOOSE e \in cset : e.location = loc

CsAdd(cset, e) == {x \in cset : x.location # e.location} \cup {e}

CsRemove(cset, loc) == {x \in cset : x.location # loc}

CsUpdate(cset, es) == {x \in cset : x.location \notin Locations(es)} \cup es

CsDifference(cset, locs) == {x \in cset : x.location \notin locs}

iterfiles(cset) == {e \in cset : e.kind = "file"}

iterdirs(cset) == {e \in cset : e.kind = "dir"}

iterlinks(cset) == {e \in cset : e.kind = "sym"}

-----------------------------------------------------------------------------
(* simple_chksum_compare *)

\* for k, v in x.chksums.iteritems(): skip "size"; compare where y has k too
SharedAlgos(x, y) ==
    {k \in DOMAIN x.chksums : k # "size" /\ k \in DOMAIN y.chksums}

simple_chksum_compare_swapped(x, y) ==
    LET shared == SharedAlgos(x, y)
    IN  IF "size" \in DOMAIN x.chksums /\ "size" \in DOMAIN y.chksums
           /\ x.chksums["size"] = y.chksums["size"]
        THEN TRUE
        ELSE shared # {} /\ \A k \in shared : y.chksums[k] = x.chksums[k]

simple_chksum_compare_nofound(x, y) ==
    LET shared == SharedAlgos(x, y)
    IN  IF \E k \in shared : y.chksums[k] # x.chksums[k]
        THEN FALSE
        ELSE IF "size" \in DOMAIN x.chksums /\ "size" \in DOMAIN y.chksums
        THEN x.chksums["size"] = y.chksums["size"]
        ELSE TRUE

simple_chksum_compare(x, y) ==
    LET shared == SharedAlgos(x, y)
    IN  IF \E k \in shared : y.chksums[k] # x.chksums[k]
        THEN FALSE
        ELSE IF "size" \in DOMAIN x.chksums /\ "size" \in DOMAIN y.chksums
        THEN x.chksums["size"] = y.chksums["size"]
        ELSE shared # {}

-----------------------------------------------------------------------------
(* env.d collapsing *)

K_CONFIG_PROTECT == <<"C","O","N","F","I","G","_","P","R","O","T","E","C","T">>
K_CONFIG_PROTECT_MASK == K_CONFIG_PROTECT \o <<"_","M","A","S","K">>
K_COLON_SEPARATED == <<"C","O","L","O","N","_","S","E","P","A","R","A","T","E","D">>
K_SPACE_SEPARATED == <<"S","P","A","C","E","_","S","E","P","A","R","A","T","E","D">>
K_PATH == <<"P","A","T","H">>
K_LDPATH == <<"L","D">> \o K_PATH
K_MANPATH == <<"M","A","N">> \o K_PATH
K_INFOPATH == <<"I","N","F","O">> \o K_PATH
K_INFODIR == <<"I","N","F","O","D","I","R">>
K_ROOTPATH == <<"R","O","O","T">> \o K_PATH
K_PYTHONPATH == <<"P","Y","T","H","O","N">> \o K_PATH
K_CLASSPATH == <<"C","L","A","S","S">> \o K_PATH
K_KDEDIRS == <<"K","D","E","D","I","R","S">>
K_PRELINK_PATH == <<"P","R","E","L","I","N","K","_">> \o K_PATH
K_PRELINK_PATH_MASK == K_PRELINK_PATH \o <<"_","M","A","S","K">>
K_PKG_CONFIG_PATH == <<"P","K","G","_","C","O","N","F","I","G","_">> \o K_PATH
K_ADA_INCLUDE_PATH == <<"A","D","A","_","I","N","C","L","U","D","E","_">> \o K_PATH
K_ADA_OBJECTS_PATH == <<"A","D","A","_","O","B","J","E","C","T","S","_">> \o K_PATH

colon_parsed ==
    {K_ADA_INCLUDE_PATH, K_ADA_OBJECTS_PATH, K_INFODIR, K_INFOPATH, K_LDPATH,
     K_MANPATH, K_PATH, K_PRELINK_PATH, K_PRELINK_PATH_MASK, K_PYTHONPATH,
     K_PKG_CONFIG_PATH, K_ROOTPATH}

incrementals ==
    {K_ADA_INCLUDE_PATH, K_ADA_OBJECTS_PATH, K_CLASSPATH, K_CONFIG_PROTECT,
     K_CONFIG_PROTECT_MASK, K_INFODIR, K_INFOPATH, K_KDEDIRS, K_LDPATH,
     K_MANPATH, K_PATH, K_PRELINK_PATH, K_PRELINK_PATH_MASK, K_PYTHONPATH,
     K_ROOTPATH, K_PKG_CONFIG_PATH}

EtcEnvd == <<"e","t","c","/","e","n","v",".","d">>

\* the env.d directory the engine's offset selects: file name -> parsed dict
\* (read_bash_dict); any other base does not exist (ENOENT)
read_envd_dir(base) ==
    IF base = pjoin(offset, EtcEnvd) THEN envd ELSE <<>>

\* the file names collapse_envd accepts
envd_accepts(x) ==
    ~( EndsWith(x, <<".","b","a","k">>) \/ EndsWith(x, <<"~">>)
       \/ StartsWith(x, <<".","_","c","f","g">>)
       \/ Len(x) <= 2 \/ ~(IsDigit(x[1]) /\ IsDigit(x[2])) )

\* the files walked last to first
RECURSIVE envd_values_reversed(_, _, _)
envd_values_reversed(dir, files, k) ==
    IF files = <<>> THEN <<>>
    ELSE envd_values_reversed(dir, Tail(files), k)
         \o (IF k \in DOMAIN dir[Head(files)] THEN <<dir[Head(files)][k]>> ELSE <<>>)

\* collapsed_d.setdefault(k, []).append(v), over the files in order
RECURSIVE envd_values(_, _, _)
envd_values(dir, files, k) ==
    IF files = <<>> THEN <<>>
    ELSE (IF k \in DOMAIN dir[Head(files)] THEN <<dir[Head(files)][k]>> ELSE <<>>)
         \o envd_values(dir, Tail(files), k)

\* only the first file's declaration looked at
split_all_first(vs) ==
    IF vs = <<>> THEN {} ELSE Range(SplitWS(Head(vs)))

\* the tokens a list of values names, each value split on whitespace
RECURSIVE split_all(_)
split_all(vs) ==
    IF vs = <<>> THEN {} ELSE Range(SplitWS(Head(vs))) \cup split_all(Tail(vs))

RECURSIVE map_split_colon(_)
map_split_colon(vs) ==
    IF vs = <<>> THEN <<>> ELSE <<SplitOn(Head(vs), ":")>> \o map_split_colon(Tail(vs))

RECURSIVE map_split_ws(_)
map_split_ws(vs) ==
    IF vs = <<>> THEN <<>> ELSE <<SplitWS(Head(vs))>> \o map_split_ws(Tail(vs))

collapse_envd(base) ==
    LET dir   == read_envd_dir(base)
        files == SortedStrs({x \in DOMAIN dir : envd_accepts(x)})
        keys  == UNION {DOMAIN dir[x] : x \in Range(files)}
        raw   == [k \in keys |-> envd_values(dir, files, k)]
        loc_colon_parsed ==
            colon_parsed \cup
            (IF K_COLON_SEPARATED \in keys THEN split_all(raw[K_COLON_SEPARATED]) ELSE {})
        loc_incrementals ==
            incrementals \cup loc_colon_parsed \cup
            (IF K_SPACE_SEPARATED \in keys THEN split_all(raw[K_SPACE_SEPARATED]) ELSE {})
        collapsed_d ==
            [k \in keys \ {K_COLON_SEPARATED, K_SPACE_SEPARATED} |->
                IF k \notin loc_incrementals THEN raw[k][Len(raw[k])]
                ELSE IF k \in loc_colon_parsed
                THEN FilterNone(Flatten(map_split_colon(raw[k])))
                ELSE FilterNone(Flatten(map_split_ws(raw[k])))]
    IN  [d |-> collapsed_d, inc |-> loc_incrementals, colon |-> loc_colon_parsed]

-----------------------------------------------------------------------------
(* gen_config_protect_filter *)

P_etc == <<"/","e","t","c">>

\* dict.setdefault(k, []) read back
envd_list(d, k) == IF k \in DOMAIN d THEN d[k] ELSE <<>>

\* values.StrGlobMatch(glob).match(value): a prefix match
StrGlobMatch(glob, value) == StartsWith(value, glob)

\* normpath(x).rstrip("/") + "/"
protect_glob(x) == RStrip(normpath(x), "/") \o Sep

gen_config_protect_filter_maskless(off, extra_p, extra_d) ==
    LET collapsed_d == collapse_envd(pjoin(off, EtcEnvd)).d
        protect == envd_list(collapsed_d, K_CONFIG_PROTECT) \o extra_p
    IN  [pos |-> {protect_glob(x) : x \in Range(protect \o <<P_etc>>)},
         neg |-> {}]

\* the restriction built: an OR of prefix globs AND NOT an OR of mask globs
gen_config_protect_filter(off, extra_p, extra_d) ==
    LET collapsed_d == collapse_envd(pjoin(off, EtcEnvd)).d
        protect == envd_list(collapsed_d, K_CONFIG_PROTECT) \o extra_p
        mask    == envd_list(collapsed_d, K_CONFIG_PROTECT_MASK) \o extra_d
    IN  [pos |-> {protect_glob(x) : x \in Range(stable_unique(protect \o <<P_etc>>))},
         neg |-> {protect_glob(x) : x \in Range(stable_unique(mask))}]

\* restriction.match(location)
filter_match(r, loc) ==
    /\ \E g \in r.pos : StrGlobMatch(g, loc)
    /\ ~ \E g \in r.neg : StrGlobMatch(g, loc)

-----------------------------------------------------------------------------
(* Values the variables have where a specification does not use them *)

NoCall == args = <<>> /\ ret = <<>> /\ frame = <<>>

NoCsets ==
    /\ install = {} /\ install_existing = {} /\ old_cset = {}
    /\ uninstall = {} /\ uninstall_existing = {} /\ new_cset = {}
    /\ install_pre = {} /\ renames = {}

NoEngine ==
    /\ mode = "none" /\ offset = Sep /\ envd = <<>>
    /\ extra_protects = <<>> /\ extra_disables = <<>>
    /\ livefs = {} /\ warnings = <<>> /\ raised = NoError /\ written = <<>>

engine_vars == <<mode, offset, envd, extra_protects, extra_disables, livefs,
                 warnings, raised>>

cset_vars == <<install, install_existing, old_cset, uninstall,
               uninstall_existing, new_cset, install_pre, renames>>

-----------------------------------------------------------------------------
(* SpecChk: simple_chksum_compare over all small pairs of checksum mappings *)

\* number of distinct values a digest or a size takes
MaxDigest == 2

ChkAlgos == {"size", "md5", "sha1"}

ChksumMaps == UNION {[S -> 1..MaxDigest] : S \in SUBSET ChkAlgos}

P_f == <<"/","f">>

InitChk ==
    /\ pc = "call"
    /\ \E cx \in ChksumMaps, cy \in ChksumMaps :
           args = [x |-> fsFile(P_f, 420, cx), y |-> fsFile(P_f, 420, cy)]
    /\ ret = <<>> /\ frame = <<>>
    /\ NoEngine /\ NoCsets

\* simple_chksum_compare(x, y) and simple_chksum_compare(y, x)
CallCompare ==
    /\ pc = "call"
    /\ ret' = [xy |-> simple_chksum_compare(args.x, args.y),
               yx |-> simple_chksum_compare(args.y, args.x)]
    /\ pc' = "done"
    /\ UNCHANGED <<written, frame, args, engine_vars, cset_vars>>

NextChk == CallCompare

SpecChk == InitChk /\ [][NextChk]_vars

NonSizeBoth(x, y) == (DOMAIN x.chksums \cap DOMAIN y.chksums) \ {"size"}

SizeBoth(x, y) == "size" \in DOMAIN x.chksums /\ "size" \in DOMAIN y.chksums

\* C7: simple_chksum_compare(x, y) is true exactly when every non-size
\* algorithm present in both entries has equal digests, the sizes are equal
\* when both carry one, and a non-size algorithm is shared or both carry a
\* size; with disjoint non-size algorithms it is true only for equal sizes
\* carried by both, and it is false when nothing is shared.
C7_CompareExact ==
    pc = "done" =>
        LET x == args.x
            y == args.y
            agree == \A k \in NonSizeBoth(x, y) : x.chksums[k] = y.chksums[k]
            sizes == SizeBoth(x, y) => x.chksums["size"] = y.chksums["size"]
        IN  /\ ret.xy = (agree /\ sizes /\ (NonSizeBoth(x, y) # {} \/ SizeBoth(x, y)))
            /\ (NonSizeBoth(x, y) = {} /\ ret.xy)
                   => (SizeBoth(x, y) /\ x.chksums["size"] = y.chksums["size"])
            /\ (DOMAIN x.chksums \cap DOMAIN y.chksums = {}) => ~ret.xy

\* reached: disjoint non-size algorithms, equal sizes on both: equal
C7_Witness ==
    /\ pc = "done"
    /\ NonSizeBoth(args.x, args.y) = {}
    /\ DOMAIN args.x.chksums = {"size", "md5"}
    /\ DOMAIN args.y.chksums = {"size", "sha1"}
    /\ ret.xy

\* C8: entries sharing a non-size algorithm with differing digests compare
\* unequal in both argument orders, equal sizes or not.
C8_DigestMismatch ==
    (pc = "done"
     /\ \E k \in NonSizeBoth(args.x, args.y) : args.x.chksums[k] # args.y.chksums[k])
        => (~ret.xy /\ ~ret.yx)

\* reached: equal sizes, a shared digest that differs, unequal both ways
C8_Witness ==
    /\ pc = "done"
    /\ SizeBoth(args.x, args.y)
    /\ args.x.chksums["size"] = args.y.chksums["size"]
    /\ "md5" \in NonSizeBoth(args.x, args.y)
    /\ args.x.chksums["md5"] # args.y.chksums["md5"]
    /\ ~ret.xy /\ ~ret.yx

-----------------------------------------------------------------------------
(* SpecFilter: gen_config_protect_filter over small env.d and trigger inputs *)

\* longest CONFIG_PROTECT / CONFIG_PROTECT_MASK token list an env.d file holds
MaxTokens == 2

P_u == <<"/","u">>
P_o_raw == <<"/","o","/","/">>
P_etc_m == <<"/","e","t","c","/","m">>
P_u_s_raw == <<"/","u","/","/","s","/">>
P_etc_raw == <<"/","e","t","c","/">>

N_10a == <<"1","0","a">>
N_20b == <<"2","0","b">>
N_20b_bak == <<"2","0","b",".","b","a","k">>

ProtectPool == {P_u, P_o_raw}
MaskPool == {P_etc_m, P_u_s_raw}

SeqsUpTo(S, n) == UNION {[1..k -> S] : k \in 0..n}

\* the locations the filter is asked about
FilterLocs ==
    { <<"/","e","t","c","/","f">>, P_etc, <<"/","e","t","c","x","/","f">>,
      <<"/","e","t","c","/","m","/","f">>, <<"/","e","t","c","/","m","x">>,
      <<"/","u","/","g">>, <<"/","u","/","s","/","h">>, <<"/","o","/","f">>,
      <<"/","v","/","f">> }

\* env.d with the protect tokens in 10a, the mask tokens in 20b, and a
\* backup file collapse_envd must not read
EnvdOf(ptoks, mtoks) ==
    (N_10a :> (IF ptoks = <<>> THEN <<>>
               ELSE (K_CONFIG_PROTECT :> Join(ptoks, <<" ">>))))
    @@ (N_20b :> (IF mtoks = <<>> THEN <<>>
                  ELSE (K_CONFIG_PROTECT_MASK :> Join(mtoks, <<" ", " ">>))))
    @@ (N_20b_bak :> (K_CONFIG_PROTECT :> <<"/","v">>))

InitFilter ==
    /\ pc = "call"
    /\ mode = "none" /\ offset = Sep
    /\ livefs = {} /\ warnings = <<>> /\ raised = NoError /\ written = <<>>
    /\ NoCsets
    /\ \E ptoks \in SeqsUpTo(ProtectPool, MaxTokens),
          mtoks \in SeqsUpTo(MaskPool, MaxTokens),
          ep \in {<<>>, <<P_u>>}, ed \in {<<>>, <<P_etc_raw>>},
          loc \in FilterLocs :
           /\ envd = EnvdOf(ptoks, mtoks)
           /\ extra_protects = ep
           /\ extra_disables = ed
           /\ args = [env_protect |-> Range(ptoks), env_mask |-> Range(mtoks),
                      location |-> loc]
    /\ ret = <<>> /\ frame = <<>>

\* gen_config_protect_filter(offset, extra_protects, extra_disables).match(location)
CallFilter ==
    /\ pc = "call"
    /\ ret' = filter_match(
                 gen_config_protect_filter(offset, extra_protects, extra_disables),
                 args.location)
    /\ pc' = "done"
    /\ UNCHANGED <<written, frame, args, engine_vars, cset_vars>>

NextFilter == CallFilter

SpecFilter == InitFilter /\ [][NextFilter]_vars

\* the directory components of a path, empty and '.' components dropped
PathComps(p) == SelectSeq(SplitOn(p, "/"), LAMBDA c : c # <<>> /\ c # <<".">>)

\* loc lies strictly below the directory prefix names
LiesUnder(loc, prefix) ==
    LET pcs == PathComps(prefix)
        lcs == PathComps(loc)
    IN  Len(lcs) > Len(pcs) /\ SubSeq(lcs, 1, Len(pcs)) = pcs

\* C2: the filter accepts a location exactly when it lies under a protected
\* prefix (env.d CONFIG_PROTECT, extra_protects, /etc) and under no mask
\* prefix (env.d CONFIG_PROTECT_MASK, extra_disables).
C2_FilterExact ==
    pc = "done" =>
        ret = ( /\ \E x \in args.env_protect \cup Range(extra_protects) \cup {P_etc} :
                       LiesUnder(args.location, x)
                /\ ~ \E x \in args.env_mask \cup Range(extra_disables) :
                       LiesUnder(args.location, x) )

\* reached: a location under an env.d protected prefix, with masks set, accepted
C2_Witness ==
    /\ pc = "done"
    /\ ret
    /\ args.location = <<"/","o","/","f">>
    /\ args.env_mask # {}

-----------------------------------------------------------------------------
(* The live filesystem as the triggers read it *)

\* livefs.gen_obj(path): the entry lstat finds; ENOENT when there is none
path_exists(path) == CsContains(livefs, path)

gen_obj(path) == CsGet(livefs, path)

\* a directory exists when it is the root, an entry of kind dir, or the
\* parent of an entry
dir_exists(d) ==
    \/ d = Sep
    \/ \E e \in livefs : (e.location = d /\ e.kind = "dir") \/ dirname(e.location) = d

\* snakeoil.osutils.listdir_files(d): the names of the regular files in d
listdir_files(d) ==
    {basename(e.location) : e \in {f \in livefs : f.kind = "file" /\ dirname(f.location) = d}}

\* livefs.intersect(cset): the live entry at each location of cset that exists
intersect(cset) == {gen_obj(e.location) : e \in {x \in cset : path_exists(x.location)}}

-----------------------------------------------------------------------------
(* collision_protect.trigger *)

S_keep == <<".","k","e","e","p">>
S_slash_keep == Sep \o S_keep

sorted_locations(cset) == SortedStrs(Locations(cset))

collision_protect_colliding_noold(inst, existing, old, flt) ==
    LET colliding == CsDifference(existing, Locations(iterdirs(inst)))
        l == {x \in colliding :
                EndsWith(x.location, S_keep) \/ filter_match(flt, x.location)}
    IN  CsDifference(colliding, Locations(l))

\* the entries of 'existing' left after each removal the trigger makes
collision_protect_colliding(inst, existing, old, flt) ==
    LET colliding == CsDifference(existing, Locations(iterdirs(inst)))
        l == {x \in colliding :
                EndsWith(x.location, S_keep) \/ filter_match(flt, x.location)}
        left == CsDifference(colliding, Locations(l))
    IN  IF existing = {} THEN {}
        ELSE IF left = {} THEN {}
        ELSE CsDifference(left, Locations(old))

\* self.difference(others): the result is a new content set, self is as it was
cs_difference(self, others) ==
    [result |-> CsDifference(self, others), self |-> self]

\* 'colliding' bound to existing itself, so the removals reach it
collision_protect_csets_aliased(inst, existing, old) ==
    [install |-> inst,
     existing |-> CsDifference(existing, Locations(iterdirs(inst))),
     old_cset |-> old]

\* the content sets the trigger was handed, as they are when it returns or
\* raises: 'colliding' is the set existing.difference() made, and every
\* difference_update is applied to it
collision_protect_csets(inst, existing, old) ==
    IF existing = {}
    THEN [install |-> inst, existing |-> existing, old_cset |-> old]
    ELSE [install |-> inst,
          existing |-> cs_difference(existing, Locations(iterdirs(inst))).self,
          old_cset |-> old]

\* the exception the trigger ends with: BlockModification naming the
\* colliding entries sorted, or none
collision_protect_trigger(inst, existing, old) ==
    LET flt == gen_config_protect_filter(offset, extra_protects, extra_disables)
        colliding == collision_protect_colliding(inst, existing, old, flt)
    IN  IF colliding # {}
        THEN [type |-> "BlockModification", paths |-> sorted_locations(colliding)]
        ELSE NoError

-----------------------------------------------------------------------------
(* ConfigProtectInstall.trigger *)

S_cfg == <<".","_","c","f","g">>

Max(a, b) == IF a >= b THEN a ELSE b

\* int(s) for a string of decimal digits
RECURSIVE IntOfDigits(_)
IntOfDigits(s) ==
    IF s = <<>> THEN 0
    ELSE 10 * IntOfDigits(SubSeq(s, 1, Len(s) - 1)) + DigitVal(s[Len(s)])

\* str(n) for n >= 0
RECURSIVE StrOfInt(_)
StrOfInt(n) ==
    IF n < 10 THEN <<Digits[n + 1]>> ELSE StrOfInt(n \div 10) \o <<Digits[(n % 10) + 1]>>

\* "%04i" % n
RECURSIVE ZeroPad(_, _)
ZeroPad(s, width) == IF Len(s) >= width THEN s ELSE ZeroPad(<<"0">> \o s, width)

CfgWidth == 4

fmt_04i(n) == ZeroPad(StrOfInt(n), CfgWidth)

\* "._cfg%04i_%s" % (count, fname)
cfg_name(count, fname) == S_cfg \o fmt_04i(count) \o <<"_">> \o fname

\* the parse of a ._cfg name: count = int(x[5:9]), x[9] == "_", fn = x[10:];
\* ValueError / IndexError skip the name
cfg_parses(x) ==
    /\ Len(x) >= 10
    /\ \A i \in 6..9 : IsDigit(x[i])
    /\ x[10] = "_"

cfg_count_of(x) == IntOfDigits(Slice(x, 5, 9))

cfg_fn_of(x) == Slice(x, 10, Len(x))

\* updates[fname]: (count, fn) of the parsed ._cfg names of dir_loc whose fn
\* is fname, in sorted name order
RECURSIVE cfg_updates_of(_, _)
cfg_updates_of(names, fname) ==
    IF names = <<>> THEN <<>>
    ELSE (IF cfg_parses(Head(names)) /\ cfg_fn_of(Head(names)) = fname
          THEN <<[count |-> cfg_count_of(Head(names)), fname |-> cfg_fn_of(Head(names))]>>
          ELSE <<>>)
         \o cfg_updates_of(Tail(names), fname)

cfg_updates(dir_loc, fname) ==
    cfg_updates_of(SortedStrs({x \in listdir_files(dir_loc) : StartsWith(x, S_cfg)}), fname)

\* the counter loop: an update whose gen_obj(pjoin(dir_loc, cfg_fname))
\* compares equal to the entry gives its count and ends the loop
RECURSIVE cfg_counter_nomax(_, _, _, _)
cfg_counter_nomax(updates, count, dir_loc, entry) ==
    IF updates = <<>> THEN count
    ELSE LET u == Head(updates)
         IN  IF simple_chksum_compare(gen_obj(pjoin(dir_loc, u.fname)), entry)
             THEN u.count
             ELSE cfg_counter_nomax(Tail(updates), count + 1, dir_loc, entry)

RECURSIVE cfg_counter(_, _, _, _)
cfg_counter(updates, count, dir_loc, entry) ==
    IF updates = <<>> THEN count
    ELSE LET u == Head(updates)
         IN  IF simple_chksum_compare(gen_obj(pjoin(dir_loc, u.fname)), entry)
             THEN u.count
             ELSE cfg_counter(Tail(updates), Max(count, u.count + 1), dir_loc, entry)

\* pjoin(engine.offset, os.path.dirname(x.location).lstrip(os.path.sep))
cfg_dir_loc(loc) == pjoin(offset, LStrip(dirname(loc), "/"))

\* the existing files the first loop collects: protected, not /.keep, and
\* differing from their replacement in the install set
cfg_protected(existing, inst, flt) ==
    {x \in iterfiles(existing) :
        /\ ~EndsWith(x.location, S_slash_keep)
        /\ filter_match(flt, x.location)
        /\ ~simple_chksum_compare(CsGet(inst, x.location), x)}

\* the renamed entry for one collected replacement
cfg_new_entry(entry) ==
    LET dir_loc == cfg_dir_loc(entry.location)
        fname   == basename(entry.location)
        count   == cfg_counter(cfg_updates(dir_loc, fname), 0, dir_loc, entry)
    IN  [entry EXCEPT !.location = pjoin(dir_loc, cfg_name(count, fname))]

\* the rename loop over the collected replacements
RECURSIVE cfg_rename(_, _, _)
cfg_rename(todo, inst, ren) ==
    IF todo = {} THEN [install |-> inst, renames |-> ren]
    ELSE LET entry == CHOOSE e \in todo : TRUE
             rest  == todo \ {entry}
         IN  IF ~dir_exists(cfg_dir_loc(entry.location))
                \/ ~CsContains(inst, entry.location)
             THEN cfg_rename(rest, inst, ren)
             ELSE LET new_entry == cfg_new_entry(entry)
                  IN  cfg_rename(rest,
                          CsAdd(CsRemove(inst, entry.location), new_entry),
                          {r \in ren : r.new.location # new_entry.location}
                              \cup {[new |-> new_entry, old |-> entry]})

ConfigProtectInstall_trigger_keepall(existing, inst, ren) ==
    LET flt  == gen_config_protect_filter(offset, extra_protects, extra_disables)
        todo == {CsGet(inst, x.location) :
                    x \in {y \in iterfiles(existing) :
                              /\ filter_match(flt, y.location)
                              /\ ~simple_chksum_compare(CsGet(inst, y.location), y)}}
    IN  cfg_rename(todo, inst, ren)

\* the install set and the rename table the trigger leaves
ConfigProtectInstall_trigger(existing, inst, ren) ==
    LET flt  == gen_config_protect_filter(offset, extra_protects, extra_disables)
        todo == {CsGet(inst, x.location) : x \in cfg_protected(existing, inst, flt)}
    IN  cfg_rename(todo, inst, ren)

-----------------------------------------------------------------------------
(* ConfigProtectInstall_restore.trigger *)

RECURSIVE restore_loop(_, _)
restore_loop(ren, inst) ==
    IF ren = {} THEN inst
    ELSE LET r == CHOOSE x \in ren : TRUE
         IN  IF ~CsContains(inst, r.new.location)
             THEN restore_loop(ren \ {r}, inst)
             ELSE restore_loop(ren \ {r}, CsAdd(CsRemove(inst, r.new.location), r.old))

ConfigProtectInstall_restore_trigger_noadd(inst, ren) ==
    [install |-> {x \in inst : x.location \notin {r.new.location : r \in ren}},
     renames |-> {}]

\* the install set and the (cleared) rename table the restore trigger leaves
ConfigProtectInstall_restore_trigger(inst, ren) ==
    [install |-> restore_loop(ren, inst), renames |-> {}]

-----------------------------------------------------------------------------
(* Spec: one install / replace operation: sanity_check, pre_merge, merge, *)
(* post_merge, with collision_protect, ConfigProtectInstall and its       *)
(* restore trigger registered                                             *)

\* number of distinct file contents
NumContents == 2

\* number of ._cfgNNNN_ counters a backup may already occupy
MaxBackups == 2

P_etc_f == <<"/","e","t","c","/","f">>
P_u_g == <<"/","u","/","g">>
P_u_keep == <<"/","u","/",".","k","e","e","p">>
P_etc_decoy == <<"/","e","t","c","/",".","_","c","f","g","0","0","0","7","_","g">>

\* the checksums of a file with content c: contents 1 and 2 have one size
ContentSums(c) == [size |-> (c + 1) \div 2, md5 |-> c]

\* a regular file with mode 0644 and content c
File(loc, c) == fsFile(loc, 420, ContentSums(c))

Dir(loc) == fsDir(loc, 493)

\* the extra_protects / extra_disables a domain hands the triggers
Configs ==
    { [protects |-> <<>>, disables |-> <<>>],
      [protects |-> <<P_u>>, disables |-> <<>>],
      [protects |-> <<>>, disables |-> <<P_etc>>] }

Init ==
    /\ pc = "sanity_check"
    /\ offset = Sep /\ envd = <<>>
    /\ warnings = <<>> /\ raised = NoError /\ written = <<>> /\ renames = {}
    /\ uninstall = {} /\ uninstall_existing = {} /\ new_cset = {}
    /\ NoCall
    /\ \E nF \in 0..NumContents, nS \in 0..1, cfg \in Configs,
          mo \in {"install", "replace"} :
       \E lF \in (IF nF = 0 THEN {0} ELSE 0..NumContents),
          sp \in (IF nS = 0 THEN {P_u_g} ELSE {P_u_g, P_u_keep}),
          lS \in (IF nS = 0 THEN {0} ELSE 0..NumContents),
          oldall \in (IF mo = "install" THEN {FALSE} ELSE BOOLEAN) :
       \E bk \in (IF lF = 0 THEN {[i \in 0..(MaxBackups - 1) |-> 0]}
                  ELSE [0..(MaxBackups - 1) -> 0..NumContents]) :
           /\ mode = mo
           /\ extra_protects = cfg.protects
           /\ extra_disables = cfg.disables
           /\ livefs =
                {Dir(P_etc), Dir(P_u), File(P_etc_decoy, 1)}
                \cup (IF lF > 0 THEN {File(P_etc_f, lF)} ELSE {})
                \cup {File(pjoin(P_etc, cfg_name(i, basename(P_etc_f))), bk[i]) :
                        i \in {j \in DOMAIN bk : bk[j] > 0}}
                \cup (IF lS > 0 THEN {File(sp, lS)} ELSE {})
           /\ install =
                (IF nF > 0 THEN {Dir(P_etc), File(P_etc_f, nF)} ELSE {})
                \cup (IF nS > 0 THEN {File(sp, nS)} ELSE {})
           /\ install_pre = install
           /\ install_existing = intersect(install)
           /\ old_cset = IF oldall THEN intersect(install) ELSE {}

\* hook sanity_check: collision_protect.trigger(engine, install, existing[, old_cset])
SanityCheck ==
    /\ pc = "sanity_check"
    /\ LET r == collision_protect_trigger(install, install_existing,
                    IF mode = "replace" THEN old_cset ELSE {})
           c == collision_protect_csets(install, install_existing, old_cset)
       IN  /\ raised' = r
           /\ pc' = IF r.type = "none" THEN "pre_merge" ELSE "aborted"
           /\ install' = c.install
           /\ install_existing' = c.existing
           /\ old_cset' = c.old_cset
    /\ UNCHANGED <<written, frame, mode, offset, envd, extra_protects, extra_disables, livefs,
                   warnings, uninstall, uninstall_existing, new_cset, install_pre, renames,
                   args, ret>>

\* hook pre_merge: ConfigProtectInstall.trigger(engine, existing_cset, install_cset)
PreMerge ==
    /\ pc = "pre_merge"
    /\ LET r == ConfigProtectInstall_trigger(install_existing, install, renames)
       IN  /\ install' = r.install
           /\ renames' = r.renames
    /\ pc' = "merge"
    /\ UNCHANGED <<written, frame, engine_vars, install_existing, old_cset, uninstall,
                   uninstall_existing, new_cset, install_pre, args, ret>>

\* hook merge: the entries of the install set are written to the filesystem
Merge ==
    /\ pc = "merge"
    /\ livefs' = CsUpdate(livefs, install)
    /\ pc' = "post_merge"
    /\ UNCHANGED <<written, frame, mode, offset, envd, extra_protects, extra_disables,
                   warnings, raised, cset_vars, args, ret>>

\* hook post_merge: ConfigProtectInstall_restore.trigger(engine, install_cset)
PostMerge ==
    /\ pc = "post_merge"
    /\ LET r == ConfigProtectInstall_restore_trigger(install, renames)
       IN  /\ install' = r.install
           /\ renames' = r.renames
    /\ pc' = "done"
    /\ UNCHANGED <<written, frame, engine_vars, install_existing, old_cset, uninstall,
                   uninstall_existing, new_cset, install_pre, args, ret>>

Next == SanityCheck \/ PreMerge \/ Merge \/ PostMerge

Spec == Init /\ [][Next]_vars

-----------------------------------------------------------------------------
(* Properties of the install / replace operation *)

\* a location is protected by the trigger's configuration when env.d names
\* no prefix: under /etc or an extra_protects prefix, under no extra_disables
IsProtectedLoc(loc) ==
    /\ \E x \in Range(extra_protects) \cup {P_etc} : LiesUnder(loc, x)
    /\ ~ \E x \in Range(extra_disables) : LiesUnder(loc, x)

\* n is ._cfgNNNN_<name> for four digits NNNN
IsCfgNameOf(n, name) ==
    /\ Len(n) = 10 + Len(name)
    /\ SubSeq(n, 1, 5) = S_cfg
    /\ \A i \in 6..9 : IsDigit(n[i])
    /\ n[10] = "_"
    /\ SubSeq(n, 11, Len(n)) = name

\* the NNNN of a ._cfgNNNN_<name> file name
CfgNumber(n) == IntOfDigits(SubSeq(n, 6, 9))

\* the existing files ConfigProtectInstall must not install over
ProtectedChanged ==
    {x \in install_existing :
        /\ x.kind = "file"
        /\ IsProtectedLoc(x.location)
        /\ ~EndsWith(x.location, S_slash_keep)
        /\ \E e \in install_pre : e.location = x.location /\ e.chksums # x.chksums}

\* the ._cfgNNNN_<name> backups of the file at loc that the filesystem holds
BackupsOf(fs, loc) ==
    {b \in fs : /\ b.kind = "file"
                /\ dirname(b.location) = dirname(loc)
                /\ IsCfgNameOf(basename(b.location), basename(loc))}

\* C3: after ConfigProtectInstall at pre_merge every existing protected
\* non-.keep file whose replacement differs is no longer in the install set
\* at its path, is there relocated to a ._cfgNNNN_<name> path, and the rename
\* table maps the renamed entry to the original; every other entry of the
\* install set is unchanged.
C3_RenameProtected ==
    pc = "merge" =>
        /\ \A x \in ProtectedChanged :
              LET orig == CsGet(install_pre, x.location)
              IN  /\ ~CsContains(install, x.location)
                  /\ \E e \in install :
                        /\ IsCfgNameOf(basename(e.location), basename(orig.location))
                        /\ e = [orig EXCEPT !.location = e.location]
                        /\ [new |-> e, old |-> orig] \in renames
        /\ \A e \in install_pre :
              e.location \notin Locations(ProtectedChanged) => e \in install
        /\ Cardinality(install) = Cardinality(install_pre)
        /\ Cardinality(renames) = Cardinality(ProtectedChanged)

\* reached: a protected file renamed while an unprotected one stays
C3_Witness ==
    /\ pc = "merge"
    /\ ProtectedChanged # {}
    /\ \E e \in install : e.location = P_u_g
    /\ ~CsContains(install, P_etc_f)

\* C4: a renamed config file whose content equals that of an existing
\* ._cfgNNNN_<name> backup takes that backup's number, so it names no new file.
C4_ReuseMatchingBackup ==
    pc = "merge" =>
        \A r \in renames :
            (\E b \in BackupsOf(livefs, r.old.location) : b.chksums = r.old.chksums)
                => (\E b \in BackupsOf(livefs, r.old.location) :
                       /\ b.chksums = r.old.chksums
                       /\ r.new.location = b.location)

\* C5: when no existing backup has the new file's content the assigned
\* counter is greater than the counter of every existing ._cfgNNNN_<name>
\* backup, 0 when there is none, and at least the number of backups.
C5_CounterFresh ==
    pc = "merge" =>
        \A r \in renames :
            LET bks == BackupsOf(livefs, r.old.location)
                n   == CfgNumber(basename(r.new.location))
            IN  (~ \E b \in bks : b.chksums = r.old.chksums)
                    => /\ \A b \in bks : n > CfgNumber(basename(b.location))
                       /\ bks = {} => n = 0
                       /\ n >= Cardinality(bks)

\* reached: a rename past a gap: only ._cfg0001_f exists, with other content
C5_Witness ==
    /\ pc = "merge"
    /\ \E r \in renames :
          LET bks == BackupsOf(livefs, r.old.location)
          IN  /\ Cardinality(bks) = 1
              /\ \A b \in bks : b.chksums # r.old.chksums
                                /\ CfgNumber(basename(b.location)) = 1
              /\ CfgNumber(basename(r.new.location)) = 2

\* C6: ConfigProtectInstall_restore at post_merge removes every recorded
\* renamed entry still in the install set, re-inserts its original, and
\* empties the rename table; the install set then has the paths and entries
\* it had before pre_merge and no ._cfgNNNN_ path the rename introduced.
C6_Restore ==
    [][pc = "post_merge" =>
          /\ \A r \in renames :
                r.new \in install =>
                    (~CsContains(install', r.new.location) /\ r.old \in install')
          /\ renames' = {}
          /\ Locations(install') = Locations(install_pre)
          /\ install' = install_pre]_vars

\* reached: the operation is over, the install set is back at the logical
\* path of a protected file that was merged under a backup name
C6_Witness ==
    /\ pc = "done"
    /\ renames = {}
    /\ install = install_pre
    /\ \E e \in install :
          /\ e.location = P_etc_f
          /\ IsProtectedLoc(e.location)
          /\ gen_obj(P_etc_f).chksums # e.chksums
          /\ \E b \in BackupsOf(livefs, P_etc_f) : b.chksums = e.chksums

-----------------------------------------------------------------------------
(* SpecCollision: the sanity_check hook alone, over richer content sets *)

P_u_x_keep == <<"/","u","/","x",".","k","e","e","p">>

CollFiles == {P_etc_f, P_u_g, P_u_keep, P_u_x_keep}

\* a path is absent from the install set, only in it ("new"), in it and on
\* the filesystem ("live"), or also in the replaced package ("old")
PathStates(mo) ==
    IF mo = "replace" THEN {"absent", "new", "live", "old"}
    ELSE {"absent", "new", "live"}

InitCollision ==
    /\ pc = "sanity_check"
    /\ offset = Sep /\ envd = <<>>
    /\ warnings = <<>> /\ raised = NoError /\ written = <<>> /\ renames = {}
    /\ uninstall = {} /\ uninstall_existing = {} /\ new_cset = {}
    /\ NoCall
    /\ \E cfg \in Configs, mo \in {"install", "replace"} :
       \E st \in [CollFiles -> PathStates(mo)],
          dins \in {"none", "dir", "file"} :
       \E dlive \in (IF \E p \in CollFiles \ {P_etc_f} : st[p] \in {"live", "old"}
                     THEN {"dir"}
                     ELSE IF dins = "none" THEN {"none"}
                     ELSE {"none", "dir", "file"}) :
       \E dold \in (IF mo = "replace" /\ dins # "none" /\ dlive # "none"
                    THEN BOOLEAN ELSE {FALSE}) :
           /\ mode = mo
           /\ extra_protects = cfg.protects
           /\ extra_disables = cfg.disables
           /\ livefs =
                {Dir(P_etc)}
                \cup {File(p, 2) : p \in {q \in CollFiles : st[q] \in {"live", "old"}}}
                \cup (IF dlive = "dir" THEN {Dir(P_u)}
                      ELSE IF dlive = "file" THEN {File(P_u, 2)} ELSE {})
           /\ install =
                {Dir(P_etc)}
                \cup {File(p, 1) : p \in {q \in CollFiles : st[q] # "absent"}}
                \cup (IF dins = "dir" THEN {Dir(P_u)}
                      ELSE IF dins = "file" THEN {File(P_u, 1)} ELSE {})
           /\ install_pre = install
           /\ install_existing = intersect(install)
           /\ old_cset =
                {File(p, 2) : p \in {q \in CollFiles : st[q] = "old"}}
                \cup (IF dold THEN {gen_obj(P_u)} ELSE {})

NextCollision == SanityCheck

SpecCollision == InitCollision /\ [][NextCollision]_vars

\* the existing entries the claim leaves: not a directory of the install
\* manifest, not protected, not a keep file, not (replace) in old_cset
Remaining ==
    {x \in install_existing :
        /\ ~ \E d \in install : d.kind = "dir" /\ d.location = x.location
        /\ ~IsProtectedLoc(x.location)
        /\ ~EndsWith(x.location, S_keep)
        /\ mode = "replace" => x.location \notin Locations(old_cset)}

IsSortedStrs(l) == \A i, j \in 1..Len(l) : i < j => StrLess(l[i], l[j])

\* C1: collision_protect raises BlockModification exactly when an existing
\* entry remains after removing the install manifest's directories, the
\* protected and keep paths and (replace) the old_cset paths; the exception
\* names exactly the remaining paths, sorted; otherwise the hook returns.
C1_CollisionExact ==
    pc # "sanity_check" =>
        /\ (raised.type = "BlockModification") = (Remaining # {})
        /\ Remaining = {} => (raised = NoError /\ pc = "pre_merge")
        /\ Remaining # {} =>
              /\ pc = "aborted"
              /\ Range(raised.paths) = Locations(Remaining)
              /\ Len(raised.paths) = Cardinality(Remaining)
              /\ IsSortedStrs(raised.paths)

\* reached: a replace whose old_cset covers one collision but not two others
C1_Witness ==
    /\ pc = "aborted"
    /\ mode = "replace"
    /\ old_cset # {}
    /\ Len(raised.paths) = 2
    /\ \E x \in install_existing : x.kind = "file" /\ IsProtectedLoc(x.location)

-----------------------------------------------------------------------------
(* ConfigProtectUninstall.trigger *)

\* the recorded entries the loop collects: existing files that are protected,
\* not /.keep, whose checksums can still be read (no ENOENT / ENOTDIR) and
\* differ from the recorded entry
ConfigProtectUninstall_remove(existing, unin) ==
    LET flt == gen_config_protect_filter(offset, <<>>, <<>>)
    IN  {CsGet(unin, x.location) :
            x \in {y \in iterfiles(existing) :
                      /\ ~EndsWith(y.location, S_slash_keep)
                      /\ filter_match(flt, y.location)
                      /\ path_exists(y.location)
                      /\ ~simple_chksum_compare(CsGet(unin, y.location), y)}}

ConfigProtectUninstall_trigger_dropsame(existing, unin) ==
    LET flt == gen_config_protect_filter(offset, <<>>, <<>>)
    IN  CsDifference(unin,
            {x.location : x \in {y \in iterfiles(existing) :
                                    /\ ~EndsWith(y.location, S_slash_keep)
                                    /\ filter_match(flt, y.location)}})

\* the uninstall set the trigger leaves: for x in remove: del uninstall_cset[x]
ConfigProtectUninstall_trigger(existing, unin) ==
    CsDifference(unin, Locations(ConfigProtectUninstall_remove(existing, unin)))

-----------------------------------------------------------------------------
(* SpecUnmerge: the pre_unmerge hook of an uninstall *)

\* what the installed-package record keeps of a file: its digest, no size
Recorded(loc, c) == fsFile(loc, 420, [md5 |-> c])

UnmergeFiles == {P_etc_f, P_u_g, P_u_keep}

\* env.d settings: nothing, /u protected as well, /etc masked
UnmergeEnvs ==
    { [protect |-> <<>>, mask |-> <<>>],
      [protect |-> <<P_u>>, mask |-> <<>>],
      [protect |-> <<>>, mask |-> <<P_etc_raw>>] }

InitUnmerge ==
    /\ pc = "pre_unmerge"
    /\ mode = "uninstall" /\ offset = Sep
    /\ extra_protects = <<>> /\ extra_disables = <<>>
    /\ warnings = <<>> /\ raised = NoError /\ written = <<>> /\ renames = {}
    /\ install = {} /\ install_existing = {} /\ old_cset = {}
    /\ new_cset = {} /\ install_pre = {}
    /\ ret = <<>> /\ frame = <<>>
    /\ \E env \in UnmergeEnvs,
          rec \in [UnmergeFiles -> 0..NumContents] :
       \E live \in [UnmergeFiles -> 0..NumContents] :
           /\ \A p \in UnmergeFiles : rec[p] = 0 => live[p] = 0
           /\ envd = EnvdOf(env.protect, env.mask)
           /\ livefs =
                {Dir(P_etc), Dir(P_u)}
                \cup {File(p, live[p]) : p \in {q \in UnmergeFiles : live[q] > 0}}
           /\ uninstall =
                {Dir(P_etc)}
                \cup {Recorded(p, rec[p]) : p \in {q \in UnmergeFiles : rec[q] > 0}}
           /\ uninstall_existing = intersect(uninstall)
           /\ args = [env_protect |-> Range(env.protect), env_mask |-> Range(env.mask),
                      uninstall_cset |-> uninstall]

\* a file of the existing set is removed from the filesystem before the
\* trigger reads its checksums: the race the trigger absorbs
FileVanishes ==
    /\ pc = "pre_unmerge"
    /\ \E e \in iterfiles(livefs) : livefs' = livefs \ {e}
    /\ UNCHANGED <<written, frame, pc, mode, offset, envd, extra_protects, extra_disables,
                   warnings, raised, cset_vars, args, ret>>

\* hook pre_unmerge: ConfigProtectUninstall.trigger(engine, existing_cset, uninstall_cset)
PreUnmerge ==
    /\ pc = "pre_unmerge"
    /\ uninstall' = ConfigProtectUninstall_trigger(uninstall_existing, uninstall)
    /\ pc' = "unmerge"
    /\ UNCHANGED <<written, frame, engine_vars, install, install_existing, old_cset,
                   uninstall_existing, new_cset, install_pre, renames, args, ret>>

NextUnmerge == FileVanishes \/ PreUnmerge

SpecUnmerge == InitUnmerge /\ [][NextUnmerge]_vars

\* protected by the env.d configuration alone
IsEnvProtectedLoc(loc) ==
    /\ \E x \in args.env_protect \cup {P_etc} : LiesUnder(loc, x)
    /\ ~ \E x \in args.env_mask : LiesUnder(loc, x)

\* the recorded entries whose file still exists, is protected, is not a
\* .keep file and no longer has the recorded digest
LocallyModified ==
    {e \in args.uninstall_cset :
        \E x \in uninstall_existing :
            /\ x.location = e.location
            /\ x.kind = "file"
            /\ x \in livefs
            /\ IsEnvProtectedLoc(x.location)
            /\ ~EndsWith(x.location, S_slash_keep)
            /\ x.chksums["md5"] # e.chksums["md5"]}

\* C9: after ConfigProtectUninstall at pre_unmerge every existing protected
\* non-.keep file whose live checksum differs from the recorded entry is gone
\* from the uninstall set, and every other entry is still in it.
C9_KeepModified ==
    pc = "unmerge" =>
        /\ \A e \in LocallyModified : ~CsContains(uninstall, e.location)
        /\ \A e \in args.uninstall_cset \ LocallyModified : e \in uninstall
        /\ uninstall \subseteq args.uninstall_cset

\* reached: one modified protected file kept, one unmodified protected file
\* and the directory still to be removed
C9_Witness ==
    /\ pc = "unmerge"
    /\ Cardinality(LocallyModified) = 1
    /\ \E e \in uninstall :
          /\ e.kind = "file"
          /\ IsEnvProtectedLoc(e.location)
          /\ \E x \in livefs : x.location = e.location
                               /\ x.chksums["md5"] = e.chksums["md5"]
    /\ Cardinality(uninstall) = Cardinality(args.uninstall_cset) - 1

-----------------------------------------------------------------------------
(* SFPerms.trigger *)

\* mode bits, in decimal: 04000, 02000, 040, 004
S_ISUID == 2048
S_ISGID == 1024
S_IRGRP == 32
S_IROTH == 4

\* m & bit # 0 for a single bit
HasBit(m, bit) == (m \div bit) % 2 = 1

\* m & ~bit for a single bit
ClearBit(m, bit) == IF HasBit(m, bit) THEN m - bit ELSE m

\* every read bit dropped where the code drops group/world read
sfperms_file_allread(x) ==
    IF HasBit(x.mode, S_ISUID) /\ (HasBit(x.mode, S_IRGRP) \/ HasBit(x.mode, S_IROTH))
    THEN <<[warn |-> [msg |-> "sfperms: dropping group/world read due to SetGID",
                     entry |-> x],
            reset |-> [x EXCEPT !.mode = ClearBit(ClearBit(ClearBit(x.mode, S_IRGRP),
                                                           S_IROTH), 256)]]>>
    ELSE <<>>

\* the warnings and the resets one file adds, in the order the loop adds them
sfperms_file(x) ==
    (IF HasBit(x.mode, S_ISUID) /\ (HasBit(x.mode, S_IRGRP) \/ HasBit(x.mode, S_IROTH))
     THEN <<[warn |-> [msg |-> "sfperms: dropping group/world read due to SetGID",
                      entry |-> x],
             reset |-> [x EXCEPT !.mode = ClearBit(ClearBit(x.mode, S_IRGRP), S_IROTH)]]>>
     ELSE <<>>)
    \o
    (IF HasBit(x.mode, S_ISGID) /\ HasBit(x.mode, S_IROTH)
     THEN <<[warn |-> [msg |-> "sfperms: dropping world read due to SetUID",
                      entry |-> x],
             reset |-> [x EXCEPT !.mode = ClearBit(x.mode, S_IROTH)]]>>
     ELSE <<>>)

\* the loop over cset.iterfiles() in the order the set iterates
RECURSIVE sfperms_loop(_)
sfperms_loop(files) ==
    IF files = <<>> THEN <<>> ELSE sfperms_file(Head(files)) \o sfperms_loop(Tail(files))

\* cset.update(resets): each entry added in turn, a later one replacing an
\* earlier one at the same location
RECURSIVE update_seq(_, _)
update_seq(cset, resets) ==
    IF resets = <<>> THEN cset
    ELSE update_seq(CsAdd(cset, Head(resets).reset), Tail(resets))

\* the orders in which a set may be iterated
Orders(S) ==
    {f \in [1..Cardinality(S) -> S] : \A i, j \in DOMAIN f : i # j => f[i] # f[j]}

RECURSIVE warns_of(_)
warns_of(rs) == IF rs = <<>> THEN <<>> ELSE <<Head(rs).warn>> \o warns_of(Tail(rs))

-----------------------------------------------------------------------------
(* SpecPerms: the SFPerms trigger at pre_merge over small content sets *)

P_b == <<"/","b">>
P_c == <<"/","c">>
P_d == <<"/","d">>

\* 0644, 0755, 04755, 04711, 04640, 04604, 02755, 02750, 02640, 02711,
\* 06755, 06644, 06640, 06600
PermModes ==
    {420, 493, 2541, 2505, 2464, 2436, 1517, 1512, 1440, 1481, 3565, 3492, 3488, 3456}

InitPerms ==
    /\ pc = "pre_merge"
    /\ mode = "install" /\ offset = Sep /\ envd = <<>>
    /\ extra_protects = <<>> /\ extra_disables = <<>>
    /\ livefs = {} /\ warnings = <<>> /\ raised = NoError /\ written = <<>>
    /\ install = {} /\ install_existing = {} /\ old_cset = {}
    /\ uninstall = {} /\ uninstall_existing = {}
    /\ install_pre = {} /\ renames = {}
    /\ ret = <<>> /\ frame = <<>>
    /\ \E mb \in PermModes, mc \in PermModes \cup {0} :
           /\ new_cset =
                {fsFile(P_b, mb, ContentSums(1)), fsDir(P_d, 3565),
                 fsSymlink(<<"/","l">>, 3583, P_b)}
                \cup (IF mc # 0 THEN {fsFile(P_c, mc, ContentSums(2))} ELSE {})
           /\ args = [cset |-> new_cset]

\* hook pre_merge: SFPerms.trigger(engine, cset)
SFPermsTrigger ==
    /\ pc = "pre_merge"
    /\ \E files \in Orders(iterfiles(new_cset)) :
          LET rs == sfperms_loop(files)
          IN  /\ warnings' = warnings \o warns_of(rs)
              /\ new_cset' = update_seq(new_cset, rs)
              /\ frame' = [resets |-> [i \in DOMAIN rs |-> rs[i].reset]]
    /\ pc' = "done"
    /\ UNCHANGED <<written, mode, offset, envd, extra_protects, extra_disables, livefs,
                   raised, install, install_existing, old_cset, uninstall,
                   uninstall_existing, install_pre, renames, args, ret>>

NextPerms == SFPermsTrigger

SpecPerms == InitPerms /\ [][NextPerms]_vars

\* C10: after SFPerms every regular file that had set-UID and world-read has
\* world-read cleared, every regular file that had set-GID and group- or
\* world-read has both cleared, and a file matching neither keeps its mode.
C10_SFPermsRule ==
    pc = "done" =>
        \A e \in iterfiles(args.cset) :
            LET m  == e.mode
                m2 == CsGet(new_cset, e.location).mode
                uid_case == HasBit(m, S_ISUID) /\ HasBit(m, S_IROTH)
                gid_case == HasBit(m, S_ISGID)
                            /\ (HasBit(m, S_IRGRP) \/ HasBit(m, S_IROTH))
            IN  /\ uid_case => ~HasBit(m2, S_IROTH)
                /\ gid_case => (~HasBit(m2, S_IRGRP) /\ ~HasBit(m2, S_IROTH))
                /\ (~uid_case /\ ~gid_case) => m2 = m

\* the warnings emitted about the entry at a location
WarningsAbout(loc) == SelectSeq(warnings, LAMBDA w : w.entry.location = loc)

\* C11: a regular file of mode 06644 is stored by SFPerms with neither
\* group-read nor world-read (mode 06600), and exactly two warnings were
\* emitted for it.
C11_BothBitsDropped ==
    pc = "done" =>
        \A e \in iterfiles(args.cset) :
            e.mode = 3492 =>
                /\ CsGet(new_cset, e.location).mode = 3456
                /\ Len(WarningsAbout(e.location)) = 2

-----------------------------------------------------------------------------
(* FixImageSymlinks.trigger *)

\* d = self.format_op.env["D"].rstrip("/") + "/"
fix_prefix_noslash(D) == RStrip(D, "/")

fix_prefix(D) == RStrip(D, "/") \o Sep

\* l = [x for x in cset.iterlinks() if x.target.startswith(d)]
fix_links(cset, D) == {x \in iterlinks(cset) : StartsWith(x.target, fix_prefix(D))}

\* the target joined to '/' whole, the prefix not dropped
fix_entry_unstripped(x, D) == [x EXCEPT !.target = pjoin(Sep, x.target)]

\* x.change_attributes(target=pjoin('/', x.target[d_len:]))
fix_entry(x, D) ==
    [x EXCEPT !.target = pjoin(Sep, Slice(x.target, Len(fix_prefix(D)), Len(x.target)))]

\* the warnings of the observer loop over l, in the order l is walked
RECURSIVE fix_warns(_)
fix_warns(l) ==
    IF l = <<>> THEN <<>>
    ELSE <<[msg |-> "correcting sym pointing into $D", entry |-> Head(l)]>>
         \o fix_warns(Tail(l))

-----------------------------------------------------------------------------
(* SpecSymlinks: the FixImageSymlinks trigger at pre_merge *)

\* at most this many symlinks are in the new content set
MaxLinks == 2

\* values of the staging root D: with and without a trailing '/'
StagingRoots == {<<"/","i">>, <<"/","i","/">>}

\* symlink targets: inside the staging root, the root itself, a sibling
\* whose name extends the root's, outside it, relative
LinkTargets ==
    { <<"/","i","/","x">>, <<"/","i","/","/","x">>, <<"/","i","/">>,
      <<"/","i">>, <<"/","i","x","/","y">>, <<"/","x">>, <<"i","/","x">>,
      <<"/","i","/","i","/","x">>, <<"/","i","/","/","i","/","x">> }

LinkName(k) == <<"/", "l">> \o <<Digits[k + 1]>>

InitSymlinks ==
    /\ pc = "pre_merge"
    /\ mode = "install" /\ offset = Sep /\ envd = <<>>
    /\ extra_protects = <<>> /\ extra_disables = <<>>
    /\ livefs = {} /\ warnings = <<>> /\ raised = NoError /\ written = <<>>
    /\ install = {} /\ install_existing = {} /\ old_cset = {}
    /\ uninstall = {} /\ uninstall_existing = {}
    /\ install_pre = {} /\ renames = {}
    /\ ret = <<>> /\ frame = <<>>
    /\ \E n \in 1..MaxLinks :
       \E tg \in [1..n -> LinkTargets], D \in StagingRoots, obs \in BOOLEAN :
           /\ new_cset =
                {fsSymlink(LinkName(k), 511, tg[k]) : k \in 1..n}
                \cup {fsFile(P_b, 420, ContentSums(1)), fsDir(<<"/","i">>, 493)}
           /\ args = [cset |-> new_cset, D |-> D, observer |-> obs]

\* hook pre_merge: FixImageSymlinks.trigger(engine, cset)
FixImageSymlinksTrigger ==
    /\ pc = "pre_merge"
    /\ LET l == fix_links(new_cset, args.D)
       IN  /\ \E order \in Orders(l) :
                 warnings' = IF args.observer THEN warnings \o fix_warns(order)
                             ELSE warnings
           /\ new_cset' = CsUpdate(new_cset, {fix_entry(x, args.D) : x \in l})
    /\ pc' = "done"
    /\ UNCHANGED <<written, frame, mode, offset, envd, extra_protects, extra_disables, livefs,
                   raised, install, install_existing, old_cset, uninstall,
                   uninstall_existing, install_pre, renames, args, ret>>

NextSymlinks == FixImageSymlinksTrigger

SpecSymlinks == InitSymlinks /\ [][NextSymlinks]_vars

\* the staging root without trailing slashes, and what follows root + '/'
StagingRoot == RStrip(args.D, "/")

PointsIntoImage(e) == e.kind = "sym" /\ StartsWith(e.target, StagingRoot \o <<"/">>)

Remainder(e) == SubSeq(e.target, Len(StagingRoot) + 2, Len(e.target))

\* '/' joined with a remainder
Reanchored(r) == IF r # <<>> /\ r[1] = "/" THEN r ELSE <<"/">> \o r

\* every link into the image is re-anchored, every other entry is unchanged
TargetsCorrected ==
    /\ Locations(new_cset) = Locations(args.cset)
    /\ \A e \in args.cset :
          IF PointsIntoImage(e)
          THEN CsGet(new_cset, e.location) = [e EXCEPT !.target = Reanchored(Remainder(e))]
          ELSE e \in new_cset

\* one warning per corrected link and no other warning
OneWarningEach ==
    /\ \A e \in args.cset :
          Len(WarningsAbout(e.location)) = (IF PointsIntoImage(e) THEN 1 ELSE 0)
    /\ Len(warnings) = Cardinality({e \in args.cset : PointsIntoImage(e)})

\* C12 as stated: after FixImageSymlinks every symlink whose target began
\* with the staging root followed by '/' has the target '/' joined with the
\* remainder, one warning was emitted per corrected link, and every other
\* entry is unchanged.
C12_FixedAndWarned ==
    pc = "done" => (TargetsCorrected /\ OneWarningEach)

\* C12, amended: the targets are corrected as stated; one warning per
\* corrected link is emitted when the engine has an observer, and none
\* when it has no observer.
C12_FixedAndWarnedIfObserved ==
    pc = "done" =>
        /\ TargetsCorrected
        /\ IF args.observer THEN OneWarningEach ELSE warnings = <<>>

\* reached: with an observer, one link into the image was corrected beside a
\* link whose target only shares the root's characters
C12_Witness ==
    /\ pc = "done"
    /\ args.observer
    /\ \E e \in args.cset : PointsIntoImage(e) /\ CsGet(new_cset, e.location) # e
    /\ \E e \in args.cset : e.kind = "sym" /\ e.target = <<"/","i","x","/","y">>
    /\ Len(warnings) = 1

-----------------------------------------------------------------------------
(* string_collapse_envd *)

\* every incremental joined with ' ': the colon test lost
string_collapse_envd_allspace(envd_dict, incs, colon_incrementals) ==
    [k \in DOMAIN envd_dict |->
        IF k \notin incs THEN envd_dict[k] ELSE Join(envd_dict[k], <<" ">>)]

\* the dict as string_collapse_envd leaves it
string_collapse_envd(envd_dict, incs, colon_incrementals) ==
    [k \in DOMAIN envd_dict |->
        IF k \notin incs THEN envd_dict[k]
        ELSE IF k \in colon_incrementals THEN Join(envd_dict[k], <<":">>)
        ELSE Join(envd_dict[k], <<" ">>)]

-----------------------------------------------------------------------------
(* SpecEnvd: collapse_envd, then string_collapse_envd, over small env.d
   directories *)

\* at most this many fragment files are in env.d
MaxFragments == 2

K_EDITOR == <<"E","D","I","T","O","R">>
K_MYVAR == <<"M","Y","V","A","R">>

N_05c == <<"0","5","c">>
N_99 == <<"9","9">>

\* file names: three accepted ones, a backup and a name too short
FragmentNames == {N_05c, N_10a, N_20b, N_20b_bak, N_99}

\* what read_bash_dict returns for a fragment file
Fragments ==
    { (K_PATH :> <<"/","a">>) @@ (K_EDITOR :> <<"v","i">>),
      (K_PATH :> <<"/","b",":","/","a">>) @@ (K_EDITOR :> <<"e","d"," ","x">>)
          @@ (K_KDEDIRS :> <<"/","k">>),
      (K_PATH :> <<"/","a",":",":","/","b">>)
          @@ (K_KDEDIRS :> <<"/","k"," "," ","/","j">>),
      (K_MYVAR :> <<"x"," ","y">>),
      (K_MYVAR :> <<"y",":","z"," ","w">>) @@ (K_EDITOR :> <<"v","i">>),
      (K_SPACE_SEPARATED :> K_MYVAR),
      (K_COLON_SEPARATED :> K_MYVAR) @@ (K_MYVAR :> <<"x">>),
      (K_SPACE_SEPARATED :> (K_EDITOR \o <<" "," ">> \o K_PATH))
          @@ (K_PATH :> <<"/","b">>),
      (K_PATH :> <<":">>) @@ (K_COLON_SEPARATED :> <<>>) @@ (K_KDEDIRS :> <<" ">>),
      (K_LDPATH :> <<"/","l",":","/","m">>) @@ (K_KDEDIRS :> <<"/","j">>) }

\* the env.d directories with up to n fragment files
EnvdDirs(n) ==
    UNION {[S -> Fragments] : S \in {T \in SUBSET FragmentNames : Cardinality(T) <= n}}

InitEnvd ==
    /\ pc = "call"
    /\ mode = "none" /\ offset = Sep
    /\ extra_protects = <<>> /\ extra_disables = <<>>
    /\ livefs = {} /\ warnings = <<>> /\ raised = NoError /\ written = <<>>
    /\ NoCsets
    /\ envd \in EnvdDirs(MaxFragments)
    /\ args = [base |-> pjoin(offset, EtcEnvd)]
    /\ ret = <<>> /\ frame = <<>>

\* d, inc, colon = collapse_envd(base)
CallCollapse ==
    /\ pc = "call"
    /\ ret' = collapse_envd(args.base)
    /\ pc' = "collapsed"
    /\ UNCHANGED <<written, frame, args, engine_vars, cset_vars>>

\* string_collapse_envd(d, inc, colon): d is rewritten in place
CallStringCollapse ==
    /\ pc = "collapsed"
    /\ args' = [envd_dict |-> ret.d, incrementals |-> ret.inc,
                colon_incrementals |-> ret.colon]
    /\ ret' = string_collapse_envd(ret.d, ret.inc, ret.colon)
    /\ pc' = "done"
    /\ UNCHANGED <<written, frame, engine_vars, cset_vars>>

NextEnvd == CallCollapse \/ CallStringCollapse

SpecEnvd == InitEnvd /\ [][NextEnvd]_vars

\* the accepted fragment files, in sorted file name order
AcceptedFiles ==
    LET S == {x \in DOMAIN envd : envd_accepts(x)}
    IN  CHOOSE l \in Orders(S) : IsSortedStrs(l)

\* the keys the accepted fragment files define
DefinedKeys == UNION {DOMAIN envd[x] : x \in Range(AcceptedFiles)}

\* the maximal runs of characters other than c in s: the non-empty tokens
RECURSIVE Tokens(_, _)
Tokens(s, c) ==
    IF s = <<>> THEN <<>>
    ELSE IF s[1] = c THEN Tokens(Tail(s), c)
    ELSE LET n == CHOOSE m \in 1..Len(s) :
                      /\ \A i \in 1..m : s[i] # c
                      /\ m = Len(s) \/ s[m + 1] = c
         IN  <<SubSeq(s, 1, n)>> \o Tokens(SubSeq(s, n + 1, Len(s)), c)

\* the tokens of key k over the first n accepted files, in file order
RECURSIVE TokensUpTo(_, _, _)
TokensUpTo(k, c, n) ==
    IF n = 0 THEN <<>>
    ELSE TokensUpTo(k, c, n - 1)
         \o (IF k \in DOMAIN envd[AcceptedFiles[n]]
             THEN Tokens(envd[AcceptedFiles[n]][k], c) ELSE <<>>)

AllTokens(k, c) == TokensUpTo(k, c, Len(AcceptedFiles))

\* the value of key k in the last accepted file that defines it
LastValue(k) ==
    LET n == CHOOSE i \in 1..Len(AcceptedFiles) :
                 /\ k \in DOMAIN envd[AcceptedFiles[i]]
                 /\ \A j \in (i + 1)..Len(AcceptedFiles) : k \notin DOMAIN envd[AcceptedFiles[j]]
    IN  envd[AcceptedFiles[n]][k]

\* C13: collapse_envd returns, for each key of the accepted files taken in
\* sorted name order, the last file's value when the key is not incremental,
\* and otherwise every file's tokens (split on ':' for colon-separated keys,
\* on whitespace for the other incrementals) in file order, empty tokens
\* dropped and duplicates kept.
C13_CollapseExact ==
    pc = "collapsed" =>
        /\ DOMAIN ret.d = DefinedKeys \ {K_COLON_SEPARATED, K_SPACE_SEPARATED}
        /\ \A k \in DOMAIN ret.d :
              ret.d[k] = IF k \notin ret.inc THEN LastValue(k)
                         ELSE IF k \in ret.colon THEN AllTokens(k, ":")
                         ELSE AllTokens(k, " ")

\* reached: two files, a non-incremental key set in both, and a
\* colon-separated key whose tokens repeat across the files
C13_Witness ==
    /\ pc = "collapsed"
    /\ AcceptedFiles = <<N_10a, N_20b>>
    /\ K_PATH \in DOMAIN ret.d
    /\ ret.d[K_PATH] = <<<<"/","b">>, <<"/","a">>, <<"/","a">>>>
    /\ K_EDITOR \in DOMAIN ret.d /\ ret.d[K_EDITOR] = <<"v","i">>

\* the names the accepted files' values of key k list, split on whitespace
NamedBy(k) == Range(AllTokens(k, " "))

\* C14 as stated: a variable named by SPACE_SEPARATED is collapsed as a
\* whitespace-split incremental and one named by COLON_SEPARATED as a
\* colon-split incremental, whichever file defines it; the two keys are
\* never returned, and the colon-separated names are incrementals.
C14_DeclaredIncrementals ==
    pc = "collapsed" =>
        /\ \A v \in NamedBy(K_SPACE_SEPARATED) :
              /\ v \in ret.inc
              /\ v \in DOMAIN ret.d => ret.d[v] = AllTokens(v, " ")
        /\ \A v \in NamedBy(K_COLON_SEPARATED) :
              /\ v \in ret.inc /\ v \in ret.colon
              /\ v \in DOMAIN ret.d => ret.d[v] = AllTokens(v, ":")
        /\ K_COLON_SEPARATED \notin DOMAIN ret.d
        /\ K_SPACE_SEPARATED \notin DOMAIN ret.d
        /\ ret.colon \subseteq ret.inc

\* C14, amended: a variable named by SPACE_SEPARATED is an incremental, split
\* on whitespace unless it is also colon-separated (built in or named by
\* COLON_SEPARATED), in which case it is split on ':'; the rest as stated.
C14_DeclaredIncrementalsColonWins ==
    pc = "collapsed" =>
        /\ \A v \in NamedBy(K_SPACE_SEPARATED) :
              /\ v \in ret.inc
              /\ v \in DOMAIN ret.d =>
                    ret.d[v] = IF v \in colon_parsed \cup NamedBy(K_COLON_SEPARATED)
                               THEN AllTokens(v, ":") ELSE AllTokens(v, " ")
        /\ \A v \in NamedBy(K_COLON_SEPARATED) :
              /\ v \in ret.inc /\ v \in ret.colon
              /\ v \in DOMAIN ret.d => ret.d[v] = AllTokens(v, ":")
        /\ K_COLON_SEPARATED \notin DOMAIN ret.d
        /\ K_SPACE_SEPARATED \notin DOMAIN ret.d
        /\ ret.colon \subseteq ret.inc

\* reached: MYVAR is defined in the earlier file and declared
\* SPACE_SEPARATED in the later one, and is returned split on whitespace
C14_Witness ==
    /\ pc = "collapsed"
    /\ AcceptedFiles = <<N_10a, N_20b>>
    /\ K_MYVAR \in DOMAIN envd[N_10a]
    /\ K_SPACE_SEPARATED \in DOMAIN envd[N_20b]
    /\ K_MYVAR \in DOMAIN ret.d
    /\ ret.d[K_MYVAR] = <<<<"y",":","z">>, <<"w">>>>

\* the separator string_collapse_envd joins key k with
SepOf(k) == IF k \in args.colon_incrementals THEN ":" ELSE " "

\* every incremental is the join of its tokens, every other key is unchanged
JoinedPerKind ==
    /\ DOMAIN ret = DOMAIN args.envd_dict
    /\ \A k \in DOMAIN ret :
          IF k \in args.incrementals
          THEN ret[k] = Join(args.envd_dict[k], <<SepOf(k)>>)
          ELSE ret[k] = args.envd_dict[k]

\* C15 as stated: string_collapse_envd joins every incremental key's tokens
\* with ':' (colon-separated) or ' ', leaves the other keys unchanged, and
\* splitting the joined string on the same separator gives back the tokens.
C15_JoinRoundTrip ==
    pc = "done" =>
        /\ JoinedPerKind
        /\ \A k \in DOMAIN ret :
              k \in args.incrementals =>
                  SplitOn(ret[k], SepOf(k)) = args.envd_dict[k]

\* C15, amended: as stated, with the empty tokens dropped after the split
\* (an empty token list joins to the empty string, which splits to one
\* empty token).
C15_JoinRoundTripNonEmpty ==
    pc = "done" =>
        /\ JoinedPerKind
        /\ \A k \in DOMAIN ret :
              k \in args.incrementals =>
                  /\ FilterNone(SplitOn(ret[k], SepOf(k))) = args.envd_dict[k]
                  /\ args.envd_dict[k] # <<>> =>
                        SplitOn(ret[k], SepOf(k)) = args.envd_dict[k]

\* reached: PATH=/b:/a and PATH=/a collapse to three tokens and then to
\* '/b:/a:/a', beside a whitespace-separated key
C15_Witness ==
    /\ pc = "done"
    /\ K_PATH \in DOMAIN ret
    /\ args.envd_dict[K_PATH] = <<<<"/","b">>, <<"/","a">>, <<"/","a">>>>
    /\ ret[K_PATH] = <<"/","b",":","/","a",":","/","a">>
    /\ K_KDEDIRS \in DOMAIN ret /\ ret[K_KDEDIRS] = <<"/","k">>

-----------------------------------------------------------------------------
(* update_ldso and env_update.trigger *)

\* str.strip() of blanks
Strip(s) == LStrip(RStrip(s, " "), " ")

S_etc == <<"e","t","c">>
S_ld_so_conf == <<"l","d",".","s","o",".","c","o","n","f">>
S_profile_env == <<"p","r","o","f","i","l","e",".","e","n","v">>
S_profile_csh == <<"p","r","o","f","i","l","e",".","c","s","h">>

ldso_path(off) == pjoin(pjoin(off, S_etc), S_ld_so_conf)
profile_env_path(off) == pjoin(pjoin(off, S_etc), S_profile_env)
profile_csh_path(off) == pjoin(pjoin(off, S_etc), S_profile_csh)

ldso_header == <<"# automatically generated, edit env.d files instead", "\n">>
profile_env_header == <<"# autogenerated.  update env.d instead", "\n">>
profile_csh_header == <<"# autogenerated, update env.d instead", "\n">>

\* x.strip() + "\n" for x in ld_search_path
RECURSIVE ldso_lines(_)
ldso_lines(l) ==
    IF l = <<>> THEN <<>> ELSE <<Strip(Head(l)) \o <<"\n">>>> \o ldso_lines(Tail(l))

\* 'export %s="%s"\n' % (k, d[k]) and 'setenv %s="%s"\n' % (k, d[k])
export_line(k, v) ==
    <<"e","x","p","o","r","t"," ">> \o k \o <<"=", "\"">> \o v \o <<"\"", "\n">>

setenv_line(k, v) ==
    <<"s","e","t","e","n","v"," ">> \o k \o <<"=", "\"">> \o v \o <<"\"", "\n">>

RECURSIVE export_lines(_, _)
export_lines(d, ks) ==
    IF ks = <<>> THEN <<>>
    ELSE <<export_line(Head(ks), d[Head(ks)])>> \o export_lines(d, Tail(ks))

RECURSIVE setenv_lines(_, _)
setenv_lines(d, ks) ==
    IF ks = <<>> THEN <<>>
    ELSE <<setenv_line(Head(ks), d[Head(ks)])>> \o setenv_lines(d, Tail(ks))

\* LDPATH left in the dict
envupd_pop_keep(d) == d

\* d after d.pop("LDPATH", None)
envupd_pop(d) == [k \in DOMAIN d \ {K_LDPATH} |-> d[k]]

\* the files env_update.trigger writes, in order: path and the writes made
env_update_jobs(off) ==
    LET c  == collapse_envd(pjoin(off, EtcEnvd))
        d  == envupd_pop(c.d)
        sd == string_collapse_envd(d, c.inc, c.colon)
        ks == SortedStrs(DOMAIN sd)
    IN  (IF K_LDPATH \in DOMAIN c.d
         THEN <<[fp |-> ldso_path(off),
                 lines |-> <<ldso_header>> \o ldso_lines(c.d[K_LDPATH])]>>
         ELSE <<>>)
        \o <<[fp |-> profile_env_path(off),
              lines |-> <<profile_env_header>> \o export_lines(sd, ks)],
             [fp |-> profile_csh_path(off),
              lines |-> <<profile_csh_header>> \o setenv_lines(sd, ks)]>>

\* the file written in place
awf_temp_inplace(fp) == fp

\* AtomicWriteFile: the path the writes go to until close() renames it to fp
awf_temp(fp) == pjoin(dirname(fp), <<".","u","p","d","a","t","e",".">> \o basename(fp))

-----------------------------------------------------------------------------
(* SpecEnvUpdate: env_update.trigger, one write at a time, with the process
   possibly terminated at any step *)

S_r == <<"/","r">>

\* the env.d directories env_update is run over
UpdateEnvs ==
    { <<>>,
      (N_10a :> ((K_PATH :> <<"/","a">>) @@ (K_EDITOR :> <<"v","i">>)))
        @@ (N_20b :> ((K_PATH :> <<"/","b",":","/","a">>)
                      @@ (K_KDEDIRS :> <<"/","k"," "," ","/","j">>))),
      (N_20b :> ((K_LDPATH :> <<" ","/","l"," ",":","/","m">>)
                 @@ (K_KDEDIRS :> <<"/","j">>)))
        @@ (N_10a :> ((K_PATH :> <<"/","a">>) @@ (K_LDPATH :> <<"/","m">>))),
      (N_10a :> (K_LDPATH :> <<":">>)),
      (N_20b_bak :> (K_LDPATH :> <<"/","l">>))
        @@ (N_10a :> ((K_SPACE_SEPARATED :> K_MYVAR) @@ (K_MYVAR :> <<"x"," ","y">>)
                      @@ (K_EDITOR :> <<"e","d">>))) }

\* what a generated file held before the trigger ran
OldLines == << <<"o","l","d","\n">> >>

InitEnvUpdate ==
    /\ pc = "post_merge"
    /\ mode = "install"
    /\ extra_protects = <<>> /\ extra_disables = <<>>
    /\ livefs = {} /\ warnings = <<>> /\ raised = NoError
    /\ NoCsets
    /\ offset \in {Sep, S_r}
    /\ envd \in UpdateEnvs
    /\ \E old \in SUBSET {ldso_path(offset), profile_env_path(offset),
                          profile_csh_path(offset)} :
           written = [p \in old |-> OldLines]
    /\ args = [old |-> written]
    /\ ret = <<>>
    /\ frame = [jobs |-> <<>>, todo |-> <<>>]

\* hook post_merge: env_update.trigger up to the first AtomicWriteFile
EnvUpdateStart ==
    /\ pc = "post_merge"
    /\ frame' = [jobs |-> env_update_jobs(offset), todo |-> <<>>]
    /\ pc' = "open"
    /\ UNCHANGED <<written, args, ret, engine_vars, cset_vars>>

\* new_f = AtomicWriteFile(fp, ...)
AwfOpen ==
    /\ pc = "open"
    /\ written' = (awf_temp(Head(frame.jobs).fp) :> <<>>) @@ written
    /\ frame' = [frame EXCEPT !.todo = Head(frame.jobs).lines]
    /\ pc' = "write"
    /\ UNCHANGED <<args, ret, engine_vars, cset_vars>>

\* new_f.write(...) and each write of new_f.writelines(...)
AwfWrite ==
    /\ pc = "write" /\ frame.todo # <<>>
    /\ LET t == awf_temp(Head(frame.jobs).fp)
       IN  written' = [written EXCEPT ![t] = Append(@, Head(frame.todo))]
    /\ frame' = [frame EXCEPT !.todo = Tail(@)]
    /\ UNCHANGED <<pc, args, ret, engine_vars, cset_vars>>

\* new_f.close(): os.rename(temp_fp, original_fp)
AwfClose ==
    /\ pc = "write" /\ frame.todo = <<>>
    /\ LET fp == Head(frame.jobs).fp
           t  == awf_temp(fp)
       IN  written' = [p \in (DOMAIN written \ {t}) \cup {fp} |->
                          IF p = fp THEN written[t] ELSE written[p]]
    /\ frame' = [frame EXCEPT !.jobs = Tail(@)]
    /\ pc' = IF Tail(frame.jobs) = <<>> THEN "done" ELSE "open"
    /\ UNCHANGED <<args, ret, engine_vars, cset_vars>>

\* the process is terminated
Terminate ==
    /\ pc \in {"post_merge", "open", "write"}
    /\ pc' = "killed"
    /\ UNCHANGED <<written, frame, args, ret, engine_vars, cset_vars>>

NextEnvUpdate == EnvUpdateStart \/ AwfOpen \/ AwfWrite \/ AwfClose \/ Terminate

SpecEnvUpdate == InitEnvUpdate /\ [][NextEnvUpdate]_vars

\* the names that are colon-separated and that are incremental for this env.d
EffColon == colon_parsed \cup NamedBy(K_COLON_SEPARATED)

EffIncremental == incrementals \cup EffColon \cup NamedBy(K_SPACE_SEPARATED)

\* the string form of key k: its tokens re-joined, or its last value
StringForm(k) ==
    IF k \notin EffIncremental THEN LastValue(k)
    ELSE IF k \in EffColon THEN Join(AllTokens(k, ":"), <<":">>)
    ELSE Join(AllTokens(k, " "), <<" ">>)

\* the keys the profile files export, in ascending order
ExportedKeys ==
    LET S == DefinedKeys \ {K_LDPATH, K_COLON_SEPARATED, K_SPACE_SEPARATED}
    IN  CHOOSE l \in Orders(S) : IsSortedStrs(l)

\* the complete new content of each generated file
NewLdso ==
    LET toks == AllTokens(K_LDPATH, ":")
    IN  <<ldso_header>> \o [i \in 1..Len(toks) |-> Strip(toks[i]) \o <<"\n">>]

NewProfileEnv ==
    <<profile_env_header>>
    \o [i \in 1..Len(ExportedKeys) |->
           export_line(ExportedKeys[i], StringForm(ExportedKeys[i]))]

NewProfileCsh ==
    <<profile_csh_header>>
    \o [i \in 1..Len(ExportedKeys) |->
           setenv_line(ExportedKeys[i], StringForm(ExportedKeys[i]))]

\* the file at path p is as it was before the trigger ran
Untouched(p) ==
    /\ p \in DOMAIN written <=> p \in DOMAIN args.old
    /\ p \in DOMAIN written => written[p] = args.old[p]

HoldsNew(p, content) == p \in DOMAIN written /\ written[p] = content

\* C16: env_update rewrites ld.so.conf from the collapsed LDPATH tokens
\* exactly when the fragments define LDPATH, and writes profile.env and
\* profile.csh as a header line followed by one line per remaining key, in
\* ascending key order, incrementals in their joined string form, LDPATH
\* never among them.
C16_EnvUpdateFiles ==
    pc = "done" =>
        /\ IF K_LDPATH \in DefinedKeys
           THEN HoldsNew(ldso_path(offset), NewLdso)
           ELSE Untouched(ldso_path(offset))
        /\ HoldsNew(profile_env_path(offset), NewProfileEnv)
        /\ HoldsNew(profile_csh_path(offset), NewProfileCsh)
        /\ \A i \in 1..Len(ExportedKeys) : ExportedKeys[i] # K_LDPATH

\* reached: LDPATH set in two fragments beside other keys; ld.so.conf is
\* rewritten over its old content and the profile holds two export lines
C16_Witness ==
    /\ pc = "done"
    /\ K_LDPATH \in DefinedKeys
    /\ ldso_path(offset) \in DOMAIN args.old
    /\ written[ldso_path(offset)] =
          <<ldso_header, <<"/","m","\n">>, <<"/","l","\n">>, <<"/","m","\n">>>>
    /\ Len(written[profile_env_path(offset)]) = 3

\* C17: in every state of update_ldso and the profile writers, also when the
\* process has been terminated, each generated file holds at its final path
\* either its complete previous content or its complete new content.
C17_AtomicReplace ==
    /\ Untouched(ldso_path(offset)) \/ HoldsNew(ldso_path(offset), NewLdso)
    /\ Untouched(profile_env_path(offset))
          \/ HoldsNew(profile_env_path(offset), NewProfileEnv)
    /\ Untouched(profile_csh_path(offset))
          \/ HoldsNew(profile_csh_path(offset), NewProfileCsh)

\* reached: the process was terminated with profile.env half written in its
\* temporary file, ld.so.conf already replaced and profile.csh still old
C17_Witness ==
    /\ pc = "killed"
    /\ HoldsNew(ldso_path(offset), NewLdso)
    /\ ldso_path(offset) \in DOMAIN args.old
    /\ awf_temp(profile_env_path(offset)) \in DOMAIN written
    /\ Len(written[awf_temp(profile_env_path(offset))]) = 2
    /\ Len(NewProfileEnv) = 3
    /\ profile_env_path(offset) \in DOMAIN args.old
    /\ Untouched(profile_env_path(offset))
    /\ Untouched(profile_csh_path(offset))

-----------------------------------------------------------------------------
(* The live filesystem as the scanner's system calls see it *)

\* symlinks followed in one path resolution before it fails with ELOOP
MaxSymlinkHops == 3

SysOk(v) == [err |-> "", val |-> v]
SysErr(e, p) == [err |-> e, val |-> p]

\* the entry at an already resolved path; '/' is always a directory
entry_at(p) == IF p = Sep THEN fsDir(Sep, 493) ELSE CsGet(livefs, p)

exists_at(p) == p = Sep \/ CsContains(livefs, p)

\* the path an absolute, normalised path resolves to, every symlink followed
\* (par is the resolved directory part, q the last component below it)
RECURSIVE os_realpath(_, _)
os_realpath(p, fuel) ==
    IF p = Sep THEN SysOk(Sep)
    ELSE IF ~StartsWith(p, Sep) THEN SysErr("ENOENT", p)
    ELSE CHOOSE res \in
            {IF par.err # "" THEN par
             ELSE IF entry_at(par.val).kind # "dir" THEN SysErr("ENOTDIR", p)
             ELSE CHOOSE r \in
                    {IF ~exists_at(q) THEN SysErr("ENOENT", p)
                     ELSE IF entry_at(q).kind # "sym" THEN SysOk(q)
                     ELSE IF fuel = 0 THEN SysErr("ELOOP", p)
                     ELSE CHOOSE t \in
                            {os_realpath(n, fuel - 1) :
                               n \in {normpath(pjoin(par.val, entry_at(q).target))}} :
                            TRUE
                     : q \in {pjoin(par.val, basename(p))}} : TRUE
             : par \in {os_realpath(dirname(p), fuel)}} : TRUE

\* os.lstat: the directory part resolved, the last component taken as it is
os_lstat(path) ==
    CHOOSE res \in
       {IF p = Sep THEN SysOk(entry_at(Sep))
        ELSE IF ~StartsWith(p, Sep) THEN SysErr("ENOENT", path)
        ELSE CHOOSE r \in
               {IF par.err # "" THEN SysErr(par.err, path)
                ELSE IF entry_at(par.val).kind # "dir" THEN SysErr("ENOTDIR", path)
                ELSE IF ~exists_at(pjoin(par.val, basename(p)))
                THEN SysErr("ENOENT", path)
                ELSE SysOk(entry_at(pjoin(par.val, basename(p))))
                : par \in {os_realpath(dirname(p), MaxSymlinkHops)}} : TRUE
        : p \in {normpath(path)}} : TRUE

\* os.stat: the whole path resolved
os_stat(path) ==
    CHOOSE res \in
       {IF r.err # "" THEN SysErr(r.err, path) ELSE SysOk(entry_at(r.val))
        : r \in {os_realpath(n, MaxSymlinkHops) : n \in {normpath(path)}}} : TRUE

\* snakeoil.osutils.listdir: the names in a directory
listdir(path) ==
    CHOOSE res \in
       {IF r.err # "" THEN SysErr(r.err, path)
        ELSE IF entry_at(r.val).kind # "dir" THEN SysErr("ENOTDIR", path)
        ELSE SysOk({basename(e.location) :
                      e \in {f \in livefs : dirname(f.location) = r.val}})
        : r \in {os_realpath(n, MaxSymlinkHops) : n \in {normpath(path)}}} : TRUE

\* gen_obj(path, real_location=..., stat_func=...): the fs object for the
\* stat result, located at path; a failed os.stat is retried with os.lstat
\* when it failed with ENOENT
gen_obj_stat(path, real_location, follow) ==
    CHOOSE res \in
       {IF st.err # "" THEN st ELSE SysOk([st.val EXCEPT !.location = path])
        : st \in {IF first.err = "" THEN first
                  ELSE IF ~follow \/ first.err # "ENOENT" THEN first
                  ELSE os_lstat(real_location)
                  : first \in {IF follow THEN os_stat(real_location)
                                         ELSE os_lstat(real_location)}}} : TRUE

-----------------------------------------------------------------------------
(* iter_scan: _internal_iter_scan and _internal_offset_iter_scan, one
   generator step at a time *)

\* stat_func = follow_symlinks and os.stat or os.lstat
scan_follows == args.follow_symlinks

\* the offset variant stats the children with os.lstat whatever stat_func is
child_follows == IF args.has_offset THEN FALSE ELSE scan_follows

\* dirs[0]: normpath(path), with the normalised offset cut off in the offset
\* variant
scan_root ==
    IF args.has_offset
    THEN Slice(normpath(args.path), Len(normpath(args.offset)), Len(normpath(args.path)))
    ELSE normpath(args.path)

\* real_base and base for a dequeued directory
scan_real_base(d) ==
    IF args.has_offset THEN pjoin(normpath(args.offset), LStrip(d, "/")) ELSE d

scan_base(d) == IF args.has_offset THEN RStrip(d, "/") \o Sep ELSE d

ScanRaise(e) ==
    /\ raised' = [type |-> e.err, paths |-> <<e.val>>]
    /\ pc' = "raised"
    /\ UNCHANGED <<ret, frame>>

\* a symlink taken for a directory as well
is_dir_or_link(obj) == obj.kind \in {"dir", "sym"}

\* obj.is_dir
is_dir(obj) == obj.kind = "dir"

\* up to the first yield and the is_dir test
ScanStart ==
    /\ pc = "scan"
    /\ IF args.has_offset /\ scan_root = <<>>
       THEN /\ frame' = [frame EXCEPT !.dirs = <<scan_root>>]
            /\ pc' = "loop"
            /\ UNCHANGED <<ret, raised>>
       ELSE \E g \in {gen_obj_stat(scan_root, scan_root, scan_follows)} :
                IF g.err # "" THEN ScanRaise(g)
                ELSE /\ ret' = <<g.val>>
                     /\ raised' = raised
                     /\ IF ~args.has_offset /\ ~is_dir(g.val)
                        THEN pc' = "done" /\ frame' = frame
                        ELSE /\ pc' = "loop"
                             /\ frame' = [frame EXCEPT !.dirs = <<scan_root>>]
    /\ UNCHANGED <<written, args, livefs, mode, offset, envd, extra_protects,
                   extra_disables, warnings, cset_vars>>

\* base = dirs.popleft(); listdir(base)
ScanPopDir ==
    /\ pc = "loop" /\ frame.dirs # <<>>
    /\ \E d \in {Head(frame.dirs)} : \E ls \in {listdir(scan_real_base(d))} :
           IF ls.err # "" THEN ScanRaise(ls)
           ELSE /\ frame' = [dirs |-> Tail(frame.dirs), base |-> scan_base(d),
                             real_base |-> scan_real_base(d), todo |-> ls.val,
                             vanished |-> frame.vanished]
                /\ pc' = "children"
                /\ UNCHANGED <<ret, raised>>
    /\ UNCHANGED <<written, args, livefs, mode, offset, envd, extra_protects,
                   extra_disables, warnings, cset_vars>>

\* one round of 'for x in listdir(base)', in whatever order the names come
ScanChild ==
    /\ pc = "children"
    /\ \E x \in frame.todo :
          \E path \in {pjoin(frame.base, x)} :
          \E g \in {gen_obj_stat(path, pjoin(frame.real_base, x), child_follows)} :
              IF g.err # "" THEN ScanRaise(g)
              ELSE /\ ret' = Append(ret, g.val)
                   /\ frame' = [frame EXCEPT
                                  !.todo = @ \ {x},
                                  !.dirs = IF is_dir(g.val)
                                           THEN Append(@, path) ELSE @]
                   /\ UNCHANGED <<pc, raised>>
    /\ UNCHANGED <<written, args, livefs, mode, offset, envd, extra_protects,
                   extra_disables, warnings, cset_vars>>

\* the listing is used up: back to 'while dirs'
ScanEndDir ==
    /\ pc = "children" /\ frame.todo = {}
    /\ pc' = "loop"
    /\ UNCHANGED <<written, frame, args, ret, engine_vars, cset_vars>>

\* 'while dirs' ends: the generator is exhausted
ScanDone ==
    /\ pc = "loop" /\ frame.dirs = <<>>
    /\ pc' = "done"
    /\ UNCHANGED <<written, frame, args, ret, engine_vars, cset_vars>>

\* a listed path that has not been stat'ed yet is removed by someone else
PathVanishes ==
    /\ pc = "children"
    /\ \E x \in frame.todo :
          LET real == normpath(pjoin(frame.real_base, x))
          IN  /\ CsContains(livefs, real)
              /\ livefs' = {e \in livefs :
                               e.location # real /\ ~StartsWith(e.location, real \o Sep)}
              /\ frame' = [frame EXCEPT !.vanished = @ \cup {pjoin(frame.real_base, x)}]
    /\ UNCHANGED <<written, pc, args, ret, raised, mode, offset, envd,
                   extra_protects, extra_disables, warnings, cset_vars>>

-----------------------------------------------------------------------------
(* SpecScan: iter_scan over small trees that do not change;
   SpecScanRace: the same with paths vanishing during the scan *)

P_t == <<"/","t">>
P_t_f == <<"/","t","/","f">>
P_t_d == <<"/","t","/","d">>
P_t_d_g == <<"/","t","/","d","/","g">>
P_t_d_e == <<"/","t","/","d","/","e">>
P_t_l == <<"/","t","/","l">>
P_t_x == <<"/","t","/","x">>

\* a directory with a file and a subdirectory
BaseTree ==
    {fsDir(P_t, 493), fsFile(P_t_f, 420, ContentSums(1)), fsDir(P_t_d, 493),
     fsFile(P_t_d_g, 420, ContentSums(2))}

\* what the symlink /t/l points at: a directory (absolute and relative
\* target), a file, nothing
SymTargets == {P_t_d, <<"d">>, P_t_f, P_t_x}

\* the trees scanned: with or without the symlink, an empty directory, and a
\* file /d outside the scanned directory
ScanTrees ==
    {BaseTree \cup l \cup e \cup o :
        l \in {{}} \cup {{fsSymlink(P_t_l, 511, t)} : t \in SymTargets},
        e \in {{}, {fsDir(P_t_d_e, 493)}},
        o \in {{}, {fsFile(P_d, 384, ContentSums(3))}}}

ScanPaths == {P_t, P_t \o Sep, P_t_d, P_t_f, P_t_l}

InitScan ==
    /\ pc = "scan"
    /\ mode = "none" /\ offset = Sep /\ envd = <<>>
    /\ extra_protects = <<>> /\ extra_disables = <<>>
    /\ warnings = <<>> /\ raised = NoError /\ written = <<>>
    /\ NoCsets
    /\ livefs \in ScanTrees
    /\ \E p \in ScanPaths, off \in {<<>>, P_t}, fl \in BOOLEAN :
          args = [path |-> p, has_offset |-> off # <<>>, offset |-> off,
                  follow_symlinks |-> fl, tree |-> livefs]
    /\ ret = <<>>
    /\ frame = [dirs |-> <<>>, base |-> <<>>, real_base |-> <<>>, todo |-> {},
                vanished |-> {}]

NextScan == ScanStart \/ ScanPopDir \/ ScanChild \/ ScanEndDir \/ ScanDone

SpecScan == InitScan /\ [][NextScan]_vars

NextScanRace == NextScan \/ PathVanishes

SpecScanRace == InitScan /\ [][NextScanRace]_vars

\* the path the scan starts from
ScanRoot == normpath(args.path)

\* the locations yielded so far
Yielded == {ret[i].location : i \in 1..Len(ret)}

\* p is the root or lies below it with only directories (no symlink) on the
\* way down from the root
ReachableNoFollow(p) ==
    /\ CsContains(livefs, p)
    /\ \/ p = ScanRoot
       \/ /\ StartsWith(p, ScanRoot \o <<"/">>)
          /\ \A i \in Len(ScanRoot)..(Len(p) - 1) :
                p[i + 1] = "/" =>
                    /\ CsContains(livefs, SubSeq(p, 1, i))
                    /\ CsGet(livefs, SubSeq(p, 1, i)).kind = "dir"

\* a scan of an existing path with no offset and symlinks not followed
PlainScan ==
    ~args.has_offset /\ ~args.follow_symlinks /\ CsContains(args.tree, ScanRoot)

\* what a plain scan has yielded is always a duplicate-free list of entries
\* reachable without passing a symlink, the root first and every entry after
\* its directory; once exhausted it has yielded all of them
C18_ScanOrder ==
    PlainScan =>
        /\ pc # "raised"
        /\ \A i, j \in 1..Len(ret) : i # j => ret[i].location # ret[j].location
        /\ \A i \in 1..Len(ret) :
              /\ ReachableNoFollow(ret[i].location)
              /\ ret[i] = CsGet(livefs, ret[i].location)
        /\ pc # "scan" => ret[1].location = ScanRoot
        /\ \A i \in 2..Len(ret) :
              \E j \in 1..(i - 1) : ret[j].location = dirname(ret[i].location)
        /\ pc = "done" =>
              Yielded = {p \in Locations(livefs) : ReachableNoFollow(p)}

\* a natural number that every step of a plain scan makes smaller: the
\* entries still to yield, the directories still queued, and the position
ScanMeasure ==
    4 * Cardinality({p \in Locations(livefs) : ReachableNoFollow(p)} \ Yielded)
    + 2 * Len(frame.dirs)
    + (CASE pc = "children" -> 2 [] pc \in {"loop", "scan"} -> 1 [] OTHER -> 0)

\* C18: over a finite tree, iter_scan without following symlinks terminates
\* (every step lowers a natural number), yields the root first and a
\* directory before its children, and yields exactly one entry for each path
\* reachable from the root without descending through a symlink, and
\* nothing else.
C18_ScanExact ==
    [][ /\ C18_ScanOrder /\ C18_ScanOrder'
        /\ PlainScan => ScanMeasure' < ScanMeasure ]_vars

\* reached: a finished plain scan of /t that yielded the symlink to a
\* directory, the subdirectory's file and the empty directory, and nothing
\* below the symlink
C18_Witness ==
    /\ pc = "done" /\ PlainScan
    /\ ScanRoot = P_t
    /\ \E e \in livefs : e.location = P_t_l /\ e.target = P_t_d
    /\ Len(ret) = 6
    /\ {P_t_l, P_t_d_g, P_t_d_e} \subseteq Yielded

\* C19: a listed path that disappears before it is stat'ed is dropped and
\* the scan goes on: it never ends with ENOENT for such a path, and once
\* exhausted it has yielded every path still there; any other OS error ends
\* the scan.
C19_VanishedDropped ==
    /\ pc = "raised" /\ raised.type = "ENOENT" => raised.paths[1] \notin frame.vanished
    /\ (pc = "done" /\ PlainScan /\ frame.vanished # {}) =>
           {p \in Locations(livefs) : ReachableNoFollow(p)} \subseteq Yielded

\* C20: whatever follow_symlinks and offset are, what iter_scan yields at a
\* symlink's path is a symlink entry with the link's own target, and nothing
\* is yielded from below that path.
C20_SymlinkYielded ==
    \A i \in 1..Len(ret) :
        LET real == IF args.has_offset
                       /\ (i > 1 \/ normpath(args.path) = normpath(args.offset))
                    THEN pjoin(normpath(args.offset), LStrip(ret[i].location, "/"))
                    ELSE ret[i].location
            st   == os_lstat(real)
        IN  (st.err = "" /\ st.val.kind = "sym") =>
                /\ ret[i].kind = "sym"
                /\ ret[i].target = st.val.target
                /\ \A j \in 1..Len(ret) :
                      ~StartsWith(ret[j].location, ret[i].location \o <<"/">>)

\* C21: with an offset, every entry iter_scan yields (the root included) is
\* located at its real path with the offset cut off, and carries the
\* metadata found at the real path, the offset put back in front of that
\* location.
C21_OffsetStripped ==
    args.has_offset =>
        \A i \in 1..Len(ret) :
            LET real == pjoin(normpath(args.offset), LStrip(ret[i].location, "/"))
            IN  \E follow \in BOOLEAN :
                    LET g == gen_obj_stat(ret[i].location, real, follow)
                    IN  g.err = "" /\ ret[i] = g.val

-----------------------------------------------------------------------------
(* intersect and _realpath_dir *)

\* os.path.realpath: every symlink that exists on the way is followed, what
\* does not exist is kept as it is, and a path whose links loop comes back
\* with the looping link left in it
RECURSIVE py_realpath(_, _)
py_realpath(p, fuel) ==
    IF p = Sep \/ ~StartsWith(p, Sep) THEN p
    ELSE CHOOSE res \in
            {CHOOSE r \in
                {IF ~exists_at(q) \/ entry_at(q).kind # "sym" \/ fuel = 0 THEN q
                 ELSE CHOOSE t \in
                        {py_realpath(n, fuel - 1) :
                           n \in {normpath(pjoin(par, entry_at(q).target))}} : TRUE
                 : q \in {pjoin(par, basename(p))}} : TRUE
             : par \in {py_realpath(dirname(p), fuel)}} : TRUE

\* location.rsplit("/", 1)
rsplit_dname(location) == SubSeq(location, 1, LastSep(location) - 1)

rsplit_fname(location) == SubSeq(location, LastSep(location) + 1, Len(location))

\* _realpath_dir.__call__ with an empty cache each time: realpath is called
\* again for a directory already seen
realpath_dir_nocache(cache, location) ==
    CHOOSE res \in
       {IF dname = <<>>
        THEN [path |-> location, cache |-> cache, called |-> <<>>]
        ELSE CHOOSE r \in
               {[path |-> pjoin(dname2, rsplit_fname(location)),
                 cache |-> [d \in DOMAIN cache \cup {dname} |->
                               IF d = dname THEN dname2 ELSE cache[d]],
                 called |-> <<dname>>]
                : dname2 \in {py_realpath(dname, MaxSymlinkHops)}} : TRUE
        : dname \in {rsplit_dname(location)}} : TRUE

\* _realpath_dir.__call__: the location with its directory part made
\* canonical, the cache afterwards, and the directory realpath was called for
realpath_dir(cache, location) ==
    CHOOSE res \in
       {IF dname = <<>>
        THEN [path |-> location, cache |-> cache, called |-> <<>>]
        ELSE IF dname \in DOMAIN cache
        THEN [path |-> pjoin(cache[dname], rsplit_fname(location)),
              cache |-> cache, called |-> <<>>]
        ELSE CHOOSE r \in
               {[path |-> pjoin(dname2, rsplit_fname(location)),
                 cache |-> [d \in DOMAIN cache \cup {dname} |->
                               IF d = dname THEN dname2 ELSE cache[d]],
                 called |-> <<dname>>]
                : dname2 \in {py_realpath(dname, MaxSymlinkHops)}} : TRUE
        : dname \in {rsplit_dname(location)}} : TRUE

\* only a missing path is passed over
intersect_skips_enoent(errno) == errno = "ENOENT"

\* oe.errno in (errno.ENOENT, errno.ENOTDIR)
intersect_skips(errno) == errno \in {"ENOENT", "ENOTDIR"}

\* one round of 'for x in cset': f2, gen_obj, then yield, skip or raise
IntersectNext ==
    /\ pc = "iter" /\ frame.i <= Len(args.cset)
    /\ \E x \in {args.cset[frame.i]} :
       \E f2 \in {IF args.realpath THEN realpath_dir(frame.cache, x.location)
                  ELSE [path |-> x.location, cache |-> frame.cache, called |-> <<>>]} :
       \E g \in {gen_obj_stat(f2.path, f2.path, FALSE)} :
          IF g.err = ""
          THEN /\ ret' = Append(ret, g.val)
               /\ frame' = [i |-> frame.i + 1, cache |-> f2.cache,
                            calls |-> frame.calls \o f2.called]
               /\ UNCHANGED <<pc, raised>>
          ELSE IF intersect_skips(g.err)
          THEN /\ frame' = [i |-> frame.i + 1, cache |-> f2.cache,
                            calls |-> frame.calls \o f2.called]
               /\ UNCHANGED <<pc, ret, raised>>
          ELSE /\ raised' = [type |-> g.err, paths |-> <<g.val>>]
               /\ pc' = "raised"
               /\ frame' = [frame EXCEPT !.cache = f2.cache,
                                         !.calls = @ \o f2.called]
               /\ ret' = ret
    /\ UNCHANGED <<written, args, livefs, mode, offset, envd, extra_protects,
                   extra_disables, warnings, cset_vars>>

\* the content set is used up: the generator is exhausted
IntersectDone ==
    /\ pc = "iter" /\ frame.i > Len(args.cset)
    /\ pc' = "done"
    /\ UNCHANGED <<written, frame, args, ret, engine_vars, cset_vars>>

-----------------------------------------------------------------------------
(* SpecIntersect: intersect over short content sets and small trees *)

\* entries in a content set handed to intersect
MaxCset == 3

P_t_l_g == <<"/","t","/","l","/","g">>
P_t_f_z == <<"/","t","/","f","/","z">>

\* /t/l is absent or points at a directory, at itself, at nothing, at a file
IntersectTrees ==
    {BaseTree \cup l :
        l \in {{}} \cup {{fsSymlink(P_t_l, 511, t)} :
                            t \in {<<"d">>, <<"l">>, P_t_x, P_t_f}}}

IntersectLocs == {P_t_f, P_t_d_g, P_t_l_g, P_t_x, P_t_f_z, P_t_l}

\* content sets in their iteration order: one entry per location, recorded
\* with metadata of its own
IntersectCsets ==
    {s \in UNION {[1..n -> {fsFile(l, 384, ContentSums(3)) : l \in IntersectLocs}] :
                     n \in 0..MaxCset} :
        \A i, j \in 1..Len(s) : i # j => s[i] # s[j]}

InitIntersect ==
    /\ pc = "iter"
    /\ mode = "none" /\ offset = Sep /\ envd = <<>>
    /\ extra_protects = <<>> /\ extra_disables = <<>>
    /\ warnings = <<>> /\ raised = NoError /\ written = <<>>
    /\ NoCsets
    /\ livefs \in IntersectTrees
    /\ \E cs \in IntersectCsets, rp \in BOOLEAN :
          args = [cset |-> cs, realpath |-> rp]
    /\ ret = <<>>
    /\ frame = [i |-> 1, cache |-> <<>>, calls |-> <<>>]

NextIntersect == IntersectNext \/ IntersectDone

SpecIntersect == InitIntersect /\ [][NextIntersect]_vars

\* the content set entries already passed
Passed == IF pc = "raised" THEN frame.i - 1
          ELSE IF frame.i > Len(args.cset) THEN Len(args.cset) ELSE frame.i - 1

\* what os.lstat says at the location of the n-th entry
LiveAt(n) == os_lstat(args.cset[n].location)

\* the passed entries that are on the live filesystem
PassedLive == {n \in 1..Passed : LiveAt(n).err = ""}

\* the k-th smallest member of a set of numbers
Kth(S, k) == CHOOSE n \in S : Cardinality({m \in S : m <= n}) = k

\* C22: intersect yields, in cset order, one entry (the live object) for
\* each path of the content set that is on the live filesystem, passes over
\* a path that fails with ENOENT or ENOTDIR and goes on, and ends with any
\* other OS error; with realpath set, realpath is called once for each
\* distinct parent directory and never twice for the same one.
C22_IntersectExact ==
    /\ Len(ret) = Cardinality(PassedLive)
    /\ \A k \in 1..Len(ret) :
          LET n    == Kth(PassedLive, k)
              live == LiveAt(n).val
          IN  /\ [ret[k] EXCEPT !.location = live.location] = live
              /\ ~args.realpath => ret[k].location = args.cset[n].location
              /\ args.realpath => ret[k] = live
    /\ \A n \in 1..Passed : LiveAt(n).err \in {"", "ENOENT", "ENOTDIR"}
    /\ pc = "raised" =>
          /\ LiveAt(frame.i).err \notin {"", "ENOENT", "ENOTDIR"}
          /\ raised.type = LiveAt(frame.i).err
    /\ \A a, b \in 1..Len(frame.calls) : a # b => frame.calls[a] # frame.calls[b]
    /\ {frame.calls[a] : a \in 1..Len(frame.calls)} =
          IF args.realpath
          THEN {rsplit_dname(args.cset[n].location) :
                   n \in 1..(IF pc = "raised" THEN frame.i ELSE Passed)}
          ELSE {}

\* reached: with realpath set, all three entries passed, /t/l/g found
\* through the symlinked directory and yielded at /t/d/g, the missing /t/x
\* passed over, and realpath called once for /t though two entries lie in it
C22_Witness ==
    /\ pc = "done" /\ args.realpath
    /\ Len(args.cset) = 3
    /\ args.cset[1].location = P_t_f
    /\ args.cset[2].location = P_t_x
    /\ args.cset[3].location = P_t_l_g
    /\ Len(ret) = 2 /\ ret[2].location = P_t_d_g
    /\ frame.calls = <<P_t, P_t_l>>

-----------------------------------------------------------------------------
(* recursively_fill_syms *)

\* fsSymlink.resolved_target: an absolute target as it is, a relative one
\* taken from the directory the link lies in
resolved_target(sym) ==
    IF StartsWith(sym.target, Sep) THEN sym.target
    ELSE normpath(pjoin(pjoin(sym.location, <<".", ".", "/">>), sym.target))

\* isinstance(obj, limiter) for the classes fsBase, fsDir and fsFile
isinstance(obj, limiter) ==
    \/ limiter = "fsBase"
    \/ limiter = "fsDir" /\ obj.kind = "dir"
    \/ limiter = "fsFile" /\ obj.kind = "file"

\* a symlink is added only when the limiter admits it
fill_adds_limited(obj, limiter) == isinstance(obj, limiter)

\* 'if obj.is_sym: cset.add(obj) ... elif isinstance(obj, limiter): cset.add(obj)'
fill_adds(obj, limiter) == obj.kind = "sym" \/ isinstance(obj, limiter)

\* sym_src = [cset.links()], the links in whatever order the set gives them
FillStart ==
    /\ pc = "call"
    /\ \E links \in Orders(iterlinks(new_cset)) :
          frame' = [sym_src |-> <<links>>, syms |-> <<>>, new_syms |-> <<>>]
    /\ pc' = "loop"
    /\ UNCHANGED <<written, args, ret, engine_vars, cset_vars>>

\* syms = sym_src.pop(-1); new_syms = []
FillPop ==
    /\ pc = "loop" /\ frame.sym_src # <<>>
    /\ frame' = [sym_src |-> SubSeq(frame.sym_src, 1, Len(frame.sym_src) - 1),
                 syms |-> frame.sym_src[Len(frame.sym_src)],
                 new_syms |-> <<>>]
    /\ pc' = "round"
    /\ UNCHANGED <<written, args, ret, engine_vars, cset_vars>>

\* one round of 'for sym in syms'
FillSym ==
    /\ pc = "round" /\ frame.syms # <<>>
    /\ \E new_loc \in {resolved_target(Head(frame.syms))} :
          IF CsContains(new_cset, new_loc)
          THEN /\ frame' = [frame EXCEPT !.syms = Tail(@)]
               /\ UNCHANGED <<pc, raised, new_cset>>
          ELSE \E g \in {gen_obj_stat(new_loc, new_loc, FALSE)} :
                  IF g.err = "ENOENT"
                  THEN /\ frame' = [frame EXCEPT !.syms = Tail(@)]
                       /\ UNCHANGED <<pc, raised, new_cset>>
                  ELSE IF g.err # ""
                  THEN /\ raised' = [type |-> g.err, paths |-> <<g.val>>]
                       /\ pc' = "raised"
                       /\ UNCHANGED <<frame, new_cset>>
                  ELSE /\ new_cset' = IF fill_adds(g.val, args.limiter)
                                      THEN CsAdd(new_cset, g.val) ELSE new_cset
                       /\ frame' = [frame EXCEPT
                                      !.syms = Tail(@),
                                      !.new_syms = IF g.val.kind = "sym"
                                                   THEN Append(@, g.val) ELSE @]
                       /\ UNCHANGED <<pc, raised>>
    /\ UNCHANGED <<written, args, ret, livefs, mode, offset, envd, extra_protects,
                   extra_disables, warnings, install, install_existing, old_cset,
                   uninstall, uninstall_existing, install_pre, renames>>

\* 'if new_syms: sym_src.append(new_syms)', back to 'while sym_src'
FillEndRound ==
    /\ pc = "round" /\ frame.syms = <<>>
    /\ frame' = [frame EXCEPT
                   !.sym_src = IF frame.new_syms # <<>>
                               THEN Append(@, frame.new_syms) ELSE @,
                   !.new_syms = <<>>]
    /\ pc' = "loop"
    /\ UNCHANGED <<written, args, ret, engine_vars, cset_vars>>

\* 'while sym_src' ends: the function returns
FillDone ==
    /\ pc = "loop" /\ frame.sym_src = <<>>
    /\ pc' = "done"
    /\ UNCHANGED <<written, frame, args, ret, engine_vars, cset_vars>>

-----------------------------------------------------------------------------
(* SpecFill: recursively_fill_syms over trees with chains and cycles of
   symlinks *)

P_t_a == <<"/","t","/","a">>
P_t_b == <<"/","t","/","b">>
P_t_c == <<"/","t","/","c">>

\* /t with the file f, the directory d, and the links a and b, each absent
\* or pointing at the other, at itself, at the file, the directory, nothing,
\* or below the file
FillTrees ==
    {{fsDir(P_t, 493), fsFile(P_t_f, 420, ContentSums(1)), fsDir(P_t_d, 493)}
        \cup a \cup b :
        a \in {{}} \cup {{fsSymlink(P_t_a, 511, t)} :
                 t \in {<<"b">>, <<"f">>, <<"d">>, <<"x">>, P_t_f_z}},
        b \in {{}} \cup {{fsSymlink(P_t_b, 511, t)} :
                 t \in {<<"a">>, P_t_a, <<"b">>, <<"d">>}}}

FillLimiters == {"fsBase", "fsDir", "fsFile"}

\* the content set handed in: some of what the tree has at /t/a and /t/f,
\* and maybe a link /t/c of its own
FillCsets(tree) ==
    {s \cup c :
        s \in SUBSET {e \in tree : e.location \in {P_t_a, P_t_f}},
        c \in {{}} \cup {{fsSymlink(P_t_c, 511, t)} : t \in {<<"a">>, <<"b">>}}}

InitFill ==
    /\ pc = "call"
    /\ mode = "none" /\ offset = Sep /\ envd = <<>>
    /\ extra_protects = <<>> /\ extra_disables = <<>>
    /\ warnings = <<>> /\ raised = NoError /\ written = <<>>
    /\ install = {} /\ install_existing = {} /\ old_cset = {}
    /\ uninstall = {} /\ uninstall_existing = {}
    /\ install_pre = {} /\ renames = {}
    /\ livefs \in FillTrees
    /\ new_cset \in FillCsets(livefs)
    /\ \E lim \in FillLimiters : args = [cset |-> new_cset, limiter |-> lim]
    /\ ret = <<>>
    /\ frame = [sym_src |-> <<>>, syms |-> <<>>, new_syms |-> <<>>]

NextFill == FillStart \/ FillPop \/ FillSym \/ FillEndRound \/ FillDone

SpecFill == InitFill /\ [][NextFill]_vars

\* every path an entry can lie at
FillPaths == {P_t, P_t_f, P_t_d, P_t_a, P_t_b, P_t_c, P_t_x, P_t_f_z}

\* the lengths of the lists of a list, added up
SumLen(ls) == Cardinality(UNION {{i} \X (1..Len(ls[i])) : i \in 1..Len(ls)})

\* a natural number that every step after the first makes smaller
FillMeasure ==
    8 * Cardinality(FillPaths \ Locations(new_cset))
    + 8 * Len(frame.new_syms) + 5 * SumLen(frame.sym_src) + 4 * Len(frame.syms)
    + 2 * Len(frame.sym_src)
    + (CASE pc = "round" -> 2 [] pc = "loop" -> 1 [] OTHER -> 0)

\* on return, the target of every symlink of the set is in the set when it
\* exists and is a symlink or of the limiter's type
FillClosed ==
    pc = "done" =>
        \A s \in iterlinks(new_cset) :
            LET st == os_lstat(resolved_target(s))
            IN  (st.err = "" /\ (st.val.kind = "sym" \/ isinstance(st.val, args.limiter)))
                    => CsContains(new_cset, resolved_target(s))

\* C23: recursively_fill_syms terminates on every finite filesystem, cyclic
\* symlink chains included (every step lowers a natural number); on return
\* the set holds all it started with and, for every symlink in it whose
\* resolved target exists, that target when it is a symlink or matches the
\* limiter; an entry already present is never removed or replaced.
C23_FillSyms ==
    /\ []FillClosed
    /\ [][ /\ new_cset \subseteq new_cset' /\ IsCset(new_cset')
           /\ Locations(new_cset') \subseteq FillPaths
           /\ args.cset \subseteq new_cset'
           /\ pc # "call" => FillMeasure' < FillMeasure ]_vars

\* reached: a -> b and b -> a form a cycle on the filesystem, the set
\* started with a alone, and the call returned with b added
C23_Witness ==
    /\ pc = "done"
    /\ Locations(args.cset) = {P_t_a}
    /\ \E e \in livefs : e.location = P_t_a /\ e.target = <<"b">>
    /\ \E e \in livefs : e.location = P_t_b /\ e.target = <<"a">>
    /\ Locations(new_cset) = {P_t_a, P_t_b}

-----------------------------------------------------------------------------
(* The triggers' class attributes and the merge engine's hooks *)

T_collision_protect == "collision_protect"
T_symdir_protect == "install_into_symdir_protect"
T_contents_reset == "preinst_contents_reset"
T_SFPerms == "SFPerms"
T_ConfigProtectInstall == "ConfigProtectInstall"
T_restore == "ConfigProtectInstall_restore"
T_ConfigProtectUninstall == "ConfigProtectUninstall"
T_env_update == "env_update"
T_merge == "merge"

\* the hooks of an install / replace operation, in phase order
Phases == <<"sanity_check", "pre_merge", "merge", "post_merge">>

\* collision_protect hooked at pre_merge
trig_hooks_late(t) ==
    CASE t = T_env_update -> {"post_unmerge", "post_merge"}
      [] t \in {T_ConfigProtectInstall, T_contents_reset, T_SFPerms,
                T_collision_protect} -> {"pre_merge"}
      [] t = T_restore -> {"post_merge"}
      [] t = T_ConfigProtectUninstall -> {"pre_unmerge"}
      [] t = T_symdir_protect -> {"sanity_check"}
      [] OTHER -> {t}

\* the _hooks of each trigger class
trig_hooks(t) ==
    CASE t = T_env_update -> {"post_unmerge", "post_merge"}
      [] t \in {T_ConfigProtectInstall, T_contents_reset, T_SFPerms} -> {"pre_merge"}
      [] t = T_restore -> {"post_merge"}
      [] t = T_ConfigProtectUninstall -> {"pre_unmerge"}
      [] t \in {T_collision_protect, T_symdir_protect} -> {"sanity_check"}
      [] OTHER -> {t}

\* preinst_contents_reset given a priority past ConfigProtectInstall's
trig_priority_reset_late(t) ==
    CASE t = T_env_update -> 5
      [] t = T_ConfigProtectInstall -> 90
      [] t = T_restore -> 10
      [] t = T_contents_reset -> 95
      [] OTHER -> 50

\* the priority of each trigger class; 50 where the class sets none
trig_priority(t) ==
    CASE t = T_env_update -> 5
      [] t = T_ConfigProtectInstall -> 90
      [] t = T_restore -> 10
      [] t = T_contents_reset -> 1
      [] OTHER -> 50

\* _engine_types: triggers.INSTALLING_MODES where the class sets it
trig_modes(t) ==
    IF t \in {T_collision_protect, T_symdir_protect, T_SFPerms}
    THEN {"install", "replace"}
    ELSE {"install", "replace", "uninstall"}

\* the triggers a call of register adds, in order: ConfigProtectInstall
\* registers itself and then its restore trigger
register_seq(t) ==
    IF t = T_ConfigProtectInstall THEN <<T_ConfigProtectInstall, T_restore>> ELSE <<t>>

\* triggers.base.register: the trigger appended to each of its hooks that
\* the engine has
RECURSIVE eng_register(_, _)
eng_register(hooks, ts) ==
    IF ts = <<>> THEN hooks
    ELSE eng_register([h \in DOMAIN hooks |->
                          IF h \in trig_hooks(Head(ts))
                          THEN Append(hooks[h], Head(ts)) ELSE hooks[h]],
                      Tail(ts))

\* a stable sort by ascending priority
RECURSIVE insert_by_priority(_, _)
insert_by_priority(sorted, t) ==
    IF sorted = <<>> THEN <<t>>
    ELSE IF trig_priority(sorted[Len(sorted)]) <= trig_priority(t)
    THEN Append(sorted, t)
    ELSE Append(insert_by_priority(SubSeq(sorted, 1, Len(sorted) - 1), t),
                sorted[Len(sorted)])

RECURSIVE sort_by_priority(_)
sort_by_priority(ts) ==
    IF ts = <<>> THEN <<>>
    ELSE insert_by_priority(sort_by_priority(SubSeq(ts, 1, Len(ts) - 1)), ts[Len(ts)])

\* the triggers a hook runs: those for the mode, by priority
hook_queue(hooks, h, m) ==
    sort_by_priority(SelectSeq(hooks[h], LAMBDA t : m \in trig_modes(t)))

\* env_update.trigger run to its end: every generated file replaced
RECURSIVE awf_all(_, _)
awf_all(fs, jobs) ==
    IF jobs = <<>> THEN fs
    ELSE awf_all([p \in DOMAIN fs \cup {Head(jobs).fp} |->
                     IF p = Head(jobs).fp THEN Head(jobs).lines ELSE fs[p]],
                 Tail(jobs))

-----------------------------------------------------------------------------
(* SpecEngine: the triggers registered in any order, then one install /
   replace operation run hook by hook, one trigger at a time *)

\* the triggers handed to the engine
EngineTriggers ==
    {T_collision_protect, T_symdir_protect, T_contents_reset, T_SFPerms,
     T_ConfigProtectInstall, T_ConfigProtectUninstall, T_env_update}

InitEngine ==
    /\ pc = "register"
    /\ offset = Sep /\ envd = <<>>
    /\ extra_protects = <<>> /\ extra_disables = <<>>
    /\ warnings = <<>> /\ raised = NoError /\ written = <<>> /\ renames = {}
    /\ uninstall = {} /\ uninstall_existing = {}
    /\ ret = <<>>
    /\ \E lF \in 0..NumContents, lS \in 0..NumContents, mS \in {0, 420, 2468},
          grown \in BOOLEAN, mo \in {"install", "replace"} :
       \E oldall \in (IF mo = "install" THEN {FALSE} ELSE BOOLEAN) :
           /\ mode = mo
           /\ livefs =
                {Dir(P_etc), Dir(P_u)}
                \cup (IF lF > 0 THEN {File(P_etc_f, lF)} ELSE {})
                \cup (IF lS > 0 THEN {File(P_u_g, lS)} ELSE {})
           /\ new_cset =
                {Dir(P_etc), File(P_etc_f, 1)}
                \cup (IF mS > 0 THEN {fsFile(P_u_g, mS, ContentSums(2))} ELSE {})
           /\ install = new_cset
           /\ install_pre = new_cset
           /\ install_existing = intersect(new_cset)
           /\ old_cset = IF oldall THEN intersect(new_cset) ELSE {}
           /\ args = [image |-> new_cset
                                \cup (IF grown THEN {File(P_u_keep, 1)} ELSE {}),
                      livefs |-> livefs]
    /\ frame = [hooks |-> [h \in Range(Phases) |->
                             IF h = "merge" THEN <<T_merge>> ELSE <<>>],
                todo |-> EngineTriggers, queue |-> <<>>, log |-> <<>>]

\* trigger.register(engine), for the triggers in whatever order they come
EngRegister ==
    /\ pc = "register"
    /\ \E t \in frame.todo :
          frame' = [frame EXCEPT !.hooks = eng_register(@, register_seq(t)),
                                 !.todo = @ \ {t}]
    /\ UNCHANGED <<written, pc, args, ret, engine_vars, cset_vars>>

\* the operation starts with its first hook
EngStart ==
    /\ pc = "register" /\ frame.todo = {}
    /\ pc' = Phases[1]
    /\ frame' = [frame EXCEPT !.queue = hook_queue(frame.hooks, Phases[1], mode)]
    /\ UNCHANGED <<written, args, ret, engine_vars, cset_vars>>

\* the hook's next trigger is t
EngInvoke(t) ==
    /\ pc \in Range(Phases)
    /\ frame.queue # <<>> /\ Head(frame.queue) = t

EngLogged(t) ==
    [frame EXCEPT !.queue = Tail(@),
                  !.log = Append(@, [hook |-> pc, label |-> t])]

\* collision_protect.trigger; BlockModification ends the operation
RunCollisionProtect ==
    /\ EngInvoke(T_collision_protect)
    /\ \E r \in {collision_protect_trigger(install, install_existing,
                     IF mode = "replace" THEN old_cset ELSE {})} :
          /\ raised' = r
          /\ pc' = IF r.type = "none" THEN pc ELSE "aborted"
    /\ frame' = EngLogged(T_collision_protect)
    /\ UNCHANGED <<written, mode, offset, envd, extra_protects, extra_disables,
                   livefs, warnings, cset_vars, args, ret>>

\* install_into_symdir_protect.trigger returns at once
RunSymdirProtect ==
    /\ EngInvoke(T_symdir_protect)
    /\ frame' = EngLogged(T_symdir_protect)
    /\ UNCHANGED <<written, pc, args, ret, engine_vars, cset_vars>>

\* preinst_contents_reset.trigger: the set wiped and filled with a scan of
\* the image; 'install' is the same set as 'new_cset'
RunContentsReset ==
    /\ EngInvoke(T_contents_reset)
    /\ new_cset' = args.image
    /\ install' = args.image
    /\ frame' = EngLogged(T_contents_reset)
    /\ UNCHANGED <<written, pc, args, ret, engine_vars, install_existing, old_cset,
                   uninstall, uninstall_existing, install_pre, renames>>

\* SFPerms.trigger
RunSFPerms ==
    /\ EngInvoke(T_SFPerms)
    /\ \E files \in Orders(iterfiles(new_cset)) :
       \E rs \in {sfperms_loop(files)} :
          /\ warnings' = warnings \o warns_of(rs)
          /\ new_cset' = update_seq(new_cset, rs)
          /\ install' = update_seq(new_cset, rs)
    /\ frame' = EngLogged(T_SFPerms)
    /\ UNCHANGED <<written, pc, args, ret, mode, offset, envd, extra_protects,
                   extra_disables, livefs, raised, install_existing, old_cset,
                   uninstall, uninstall_existing, install_pre, renames>>

\* ConfigProtectInstall.trigger
RunConfigProtectInstall ==
    /\ EngInvoke(T_ConfigProtectInstall)
    /\ \E r \in {ConfigProtectInstall_trigger(install_existing, install, renames)} :
          /\ install' = r.install
          /\ new_cset' = r.install
          /\ renames' = r.renames
    /\ frame' = EngLogged(T_ConfigProtectInstall)
    /\ UNCHANGED <<written, pc, args, ret, engine_vars, install_existing, old_cset,
                   uninstall, uninstall_existing, install_pre>>

\* the engine's merge step: the install set written to the filesystem
RunMerge ==
    /\ EngInvoke(T_merge)
    /\ livefs' = CsUpdate(livefs, install)
    /\ frame' = EngLogged(T_merge)
    /\ UNCHANGED <<written, pc, args, ret, mode, offset, envd, extra_protects,
                   extra_disables, warnings, raised, cset_vars>>

\* env_update.trigger
RunEnvUpdate ==
    /\ EngInvoke(T_env_update)
    /\ written' = awf_all(written, env_update_jobs(offset))
    /\ frame' = EngLogged(T_env_update)
    /\ UNCHANGED <<pc, args, ret, engine_vars, cset_vars>>

\* ConfigProtectInstall_restore.trigger
RunRestore ==
    /\ EngInvoke(T_restore)
    /\ \E r \in {ConfigProtectInstall_restore_trigger(install, renames)} :
          /\ install' = r.install
          /\ new_cset' = r.install
          /\ renames' = r.renames
    /\ frame' = EngLogged(T_restore)
    /\ UNCHANGED <<written, pc, args, ret, engine_vars, install_existing, old_cset,
                   uninstall, uninstall_existing, install_pre>>

\* the hook has run all its triggers: on to the next one
EngNextHook ==
    /\ pc \in Range(Phases) /\ frame.queue = <<>>
    /\ \E i \in {CHOOSE j \in DOMAIN Phases : Phases[j] = pc} :
          IF i = Len(Phases)
          THEN pc' = "done" /\ frame' = frame
          ELSE /\ pc' = Phases[i + 1]
               /\ frame' = [frame EXCEPT
                              !.queue = hook_queue(frame.hooks, Phases[i + 1], mode)]
    /\ UNCHANGED <<written, args, ret, engine_vars, cset_vars>>

NextEngine ==
    \/ EngRegister \/ EngStart \/ EngNextHook
    \/ RunCollisionProtect \/ RunSymdirProtect \/ RunContentsReset \/ RunSFPerms
    \/ RunConfigProtectInstall \/ RunMerge \/ RunEnvUpdate \/ RunRestore

SpecEngine == InitEngine /\ [][NextEngine]_vars

\* the position of a hook in the phase order
PhaseIdx(h) == CHOOSE j \in DOMAIN Phases : Phases[j] = h

\* the hooks the operation has left behind
HooksDone ==
    {h \in Range(Phases) :
        pc = "done" \/ (pc \in Range(Phases) /\ PhaseIdx(h) < PhaseIdx(pc))}

\* the triggers invoked in hook h, in the order they were invoked
Invoked(h) == SelectSeq(frame.log, LAMBDA e : e.hook = h)

\* C24: the hooks of a merge operation run in the declared phase order, a
\* hook has run every one of its triggers before the next hook begins, and
\* once a trigger raises BlockModification no trigger is invoked after it:
\* after a collision_protect veto at sanity_check no trigger of pre_merge,
\* merge or post_merge has run and nothing was written.
C24_PhaseOrderAndVeto ==
    /\ \A i, j \in 1..Len(frame.log) :
          i < j => PhaseIdx(frame.log[i].hook) <= PhaseIdx(frame.log[j].hook)
    /\ \A h \in HooksDone :
          Len(Invoked(h)) = Len(hook_queue(frame.hooks, h, mode))
    /\ pc # "aborted" =>
          \A h \in Range(Phases) \ HooksDone : h # pc => Invoked(h) = <<>>
    /\ raised.type # "none" =>
          /\ pc = "aborted"
          /\ frame.log[Len(frame.log)] =
                [hook |-> "sanity_check", label |-> T_collision_protect]
          /\ \A i \in 1..Len(frame.log) : frame.log[i].hook = "sanity_check"
          /\ livefs = args.livefs /\ written = <<>>
    /\ pc = "aborted" => raised.type = "BlockModification"

\* reached: collision_protect, registered ahead of
\* install_into_symdir_protect, vetoed the operation, and nothing else ran
C24_Witness ==
    /\ pc = "aborted"
    /\ frame.hooks["sanity_check"] = <<T_collision_protect, T_symdir_protect>>
    /\ frame.log = <<[hook |-> "sanity_check", label |-> T_collision_protect]>>
    /\ frame.queue = <<T_symdir_protect>>

\* the place of trigger t among those registered to hook h
RegPos(h, t) == CHOOSE i \in DOMAIN frame.hooks[h] : frame.hooks[h][i] = t

\* the place of trigger t in the log, 0 when it has not been invoked
LogPos(t) ==
    IF \E i \in 1..Len(frame.log) : frame.log[i].label = t
    THEN CHOOSE i \in 1..Len(frame.log) : frame.log[i].label = t
    ELSE 0

\* C25: within a hook the triggers for the operation mode are invoked by
\* ascending priority, those of equal priority in registration order; at
\* pre_merge preinst_contents_reset runs before ConfigProtectInstall, so the
\* entries ConfigProtectInstall renamed are still in the install set when
\* the hook is over; at post_merge ConfigProtectInstall_restore runs after
\* env_update.
C25_PriorityOrder ==
    /\ \A i, j \in 1..Len(frame.log) :
          (i < j /\ frame.log[i].hook = frame.log[j].hook) =>
              LET h == frame.log[i].hook
                  a == frame.log[i].label
                  b == frame.log[j].label
              IN  \/ trig_priority(a) < trig_priority(b)
                  \/ /\ trig_priority(a) = trig_priority(b)
                     /\ RegPos(h, a) < RegPos(h, b)
    /\ \A i \in 1..Len(frame.log) :
          /\ mode \in trig_modes(frame.log[i].label)
          /\ frame.log[i].label \in Range(frame.hooks[frame.log[i].hook])
    /\ LogPos(T_ConfigProtectInstall) > 0 =>
          /\ LogPos(T_contents_reset) > 0
          /\ LogPos(T_contents_reset) < LogPos(T_ConfigProtectInstall)
    /\ pc = "merge" => \A r \in renames : r.new \in install
    /\ LogPos(T_restore) > 0 =>
          /\ LogPos(T_env_update) > 0
          /\ LogPos(T_env_update) < LogPos(T_restore)

\* reached: the triggers were registered against their priority order,
\* pre_merge is over, and the renamed config file is in the install set
C25_Witness ==
    /\ pc = "merge"
    /\ frame.hooks["sanity_check"] = <<T_symdir_protect, T_collision_protect>>
    /\ frame.hooks["pre_merge"] = <<T_ConfigProtectInstall, T_SFPerms, T_contents_reset>>
    /\ renames # {}
    /\ ~CsContains(install, P_etc_f)
    /\ CsContains(install, P_u_keep)

-----------------------------------------------------------------------------
(* InfoRegen.register *)

\* triggers.InfoRegen._label and the ebuild InfoRegen's _label
L_generic_regen == "gnu info regen"
L_ebuild_regen == "ebuild info regen"

\* the hooks InfoRegen inherits from triggers.InfoRegen
regen_hooks == {"post_merge", "post_unmerge"}

\* list.remove(y): the first element equal to y dropped
RECURSIVE list_remove(_, _)
list_remove(l, y) ==
    IF l = <<>> THEN <<>>
    ELSE IF Head(l) = y THEN Tail(l)
    ELSE <<Head(l)>> \o list_remove(Tail(l), y)

RECURSIVE remove_each(_, _)
remove_each(l, wipes) ==
    IF wipes = <<>> THEN l ELSE remove_each(list_remove(l, Head(wipes)), Tail(wipes))

\* only the first generic trigger found is wiped
regen_wipes_first(l) ==
    LET w == SelectSeq(l, LAMBDA y : y.label = L_generic_regen)
    IN  IF w = <<>> THEN <<>> ELSE <<Head(w)>>

\* wipes = [y for y in engine.hooks[x] if y.label == triggers.InfoRegen._label]
regen_wipes(l) == SelectSeq(l, LAMBDA y : y.label = L_generic_regen)

\* InfoRegen.register: the generic triggers removed from each of its hooks
\* the engine has, then triggers.InfoRegen.register appends it to them
regen_register(hooks, self) ==
    [x \in DOMAIN hooks |->
        IF x \in regen_hooks
        THEN Append(remove_each(hooks[x], regen_wipes(hooks[x])), self)
        ELSE hooks[x]]

-----------------------------------------------------------------------------
(* SpecRegen: the ebuild InfoRegen registering into engines that already
   hold triggers *)

\* triggers already registered to a hook
MaxRegistered == 3

\* the hooks of an install, an uninstall and a replace engine
RegenEngines ==
    { {"sanity_check", "pre_merge", "merge", "post_merge"},
      {"sanity_check", "pre_unmerge", "unmerge", "post_unmerge"},
      {"sanity_check", "pre_merge", "merge", "post_merge",
       "pre_unmerge", "unmerge", "post_unmerge"} }

\* what a hook holds before: trigger objects, told apart by id
RegenLists ==
    UNION {{l \in [1..n -> {L_generic_regen, T_env_update, T_restore}] : TRUE} :
              n \in 0..MaxRegistered}

Objs(labels) == [i \in DOMAIN labels |-> [label |-> labels[i], id |-> i]]

InitRegen ==
    /\ pc = "register"
    /\ mode = "none" /\ offset = Sep /\ envd = <<>>
    /\ extra_protects = <<>> /\ extra_disables = <<>>
    /\ livefs = {} /\ warnings = <<>> /\ raised = NoError /\ written = <<>>
    /\ NoCsets
    /\ ret = <<>>
    /\ \E eng \in RegenEngines, lm \in RegenLists, lu \in RegenLists,
          lp \in {<<>>, <<L_generic_regen>>} :
          /\ "post_merge" \notin eng => lm = <<>>
          /\ "post_unmerge" \notin eng => lu = <<>>
          /\ frame = [hooks |-> [h \in eng |->
                         CASE h = "post_merge" -> Objs(lm)
                           [] h = "post_unmerge" -> Objs(lu)
                           [] h = "sanity_check" -> Objs(lp)
                           [] OTHER -> <<>>]]
    /\ args = [hooks |-> frame.hooks, self |-> [label |-> L_ebuild_regen, id |-> 0]]

\* InfoRegen().register(engine)
InfoRegenRegister ==
    /\ pc = "register"
    /\ frame' = [frame EXCEPT !.hooks = regen_register(@, args.self)]
    /\ pc' = "done"
    /\ UNCHANGED <<written, args, ret, engine_vars, cset_vars>>

NextRegen == InfoRegenRegister

SpecRegen == InitRegen /\ [][NextRegen]_vars

\* the triggers of a list that do not carry the generic label
NotGeneric(l) == SelectSeq(l, LAMBDA y : y.label # L_generic_regen)

\* C26: after the ebuild InfoRegen registered, no hook it takes part in
\* holds a trigger with the generic InfoRegen label registered before it,
\* the ebuild InfoRegen is in each such hook exactly once, and the triggers
\* with other labels are still registered in their original order; the
\* other hooks are as they were.
C26_RegenSupersedes ==
    pc = "done" =>
        \A x \in DOMAIN frame.hooks :
            IF x \in regen_hooks
            THEN /\ \A i \in 1..Len(frame.hooks[x]) :
                       frame.hooks[x][i].label # L_generic_regen
                 /\ Cardinality({i \in 1..Len(frame.hooks[x]) :
                                    frame.hooks[x][i] = args.self}) = 1
                 /\ SelectSeq(frame.hooks[x], LAMBDA y : y # args.self)
                       = NotGeneric(args.hooks[x])
            ELSE frame.hooks[x] = args.hooks[x]

\* reached: a replace engine whose post_merge hook held two generic
\* InfoRegen triggers around env_update now holds env_update and the ebuild
\* InfoRegen, and the generic trigger at sanity_check is still there
C26_Witness ==
    /\ pc = "done"
    /\ {"post_merge", "post_unmerge"} \subseteq DOMAIN frame.hooks
    /\ Len(args.hooks["post_merge"]) = 3
    /\ args.hooks["post_merge"][1].label = L_generic_regen
    /\ args.hooks["post_merge"][2].label = T_env_update
    /\ args.hooks["post_merge"][3].label = L_generic_regen
    /\ Len(frame.hooks["post_merge"]) = 2
    /\ frame.hooks["post_merge"][2] = args.self
    /\ Len(frame.hooks["sanity_check"]) = 1

-----------------------------------------------------------------------------
(* generate_triggers *)

F_collision_protect == <<"c","o","l","l","i","s","i","o","n","-","p","r","o","t","e","c","t">>
F_multilib_strict == <<"m","u","l","t","i","l","i","b","-","s","t","r","i","c","t">>
F_sfperms == <<"s","f","p","e","r","m","s">>
F_noman == <<"n","o","m","a","n">>
F_noinfo == <<"n","o","i","n","f","o">>
F_nodoc == <<"n","o","d","o","c">>
S_usr_share == <<"/","u","s","r","/","s","h","a","r","e","/">>

\* a domain setting: not set, a string, or a list of strings
Unset == [form |-> "none", val |-> <<>>]
PyStr(s) == [form |-> "str", val |-> s]
PyList(l) == [form |-> "list", val |-> l]

\* domain_settings.get(key, default)
settings_get(v, default) == IF v.form = "none" THEN default ELSE v

\* 'if isinstance(v, basestring): v = v.split()'
split_if_str(v) == IF v.form = "str" THEN PyList(SplitWS(v.val)) ELSE v

\* x in v: a substring test on a string, membership on a list
py_in(x, v) ==
    IF v.form = "str"
    THEN \E i \in 0..(Len(v.val) - Len(x)) : SubSeq(v.val, i + 1, i + Len(x)) = x
    ELSE x \in Range(v.val)

\* what iterating v gives: the characters of a string, the items of a list
py_iter(v) ==
    IF v.form = "str" THEN [i \in 1..Len(v.val) |-> <<v.val[i]>>] ELSE v.val

\* the nodoc/noman/noinfo features left out
gt_install_mask_plain(s, features) == SplitWS(settings_get(s.INSTALL_MASK, PyStr(<<>>)).val)

\* install_mask before it is turned into patterns: the INSTALL_MASK tokens,
\* then /usr/share/<x> for each of man, info, doc whose no<x> is in features
gt_install_mask(s, features) ==
    SplitWS(settings_get(s.INSTALL_MASK, PyStr(<<>>)).val)
    \o (IF py_in(F_noman, features) THEN <<S_usr_share \o <<"m","a","n">>>> ELSE <<>>)
    \o (IF py_in(F_noinfo, features) THEN <<S_usr_share \o <<"i","n","f","o">>>> ELSE <<>>)
    \o (IF py_in(F_nodoc, features) THEN <<S_usr_share \o <<"d","o","c">>>> ELSE <<>>)

\* the fnmatch patterns made of install_mask: x and x/* for each x.rstrip("/")
RECURSIVE gt_patterns(_)
gt_patterns(install_mask) ==
    IF install_mask = <<>> THEN <<>>
    ELSE <<RStrip(Head(install_mask), "/"), RStrip(Head(install_mask), "/") \o <<"/","*">>>>
         \o gt_patterns(Tail(install_mask))

\* register_multilib_strict_trigger: None unless MULTILIB_STRICT_DIRS and
\* MULTILIB_STRICT_DENY are set and a directory is named
register_multilib_strict_trigger(s) ==
    IF s.MULTILIB_STRICT_DIRS.form = "none" \/ s.MULTILIB_STRICT_DENY.form = "none"
    THEN "None"
    ELSE IF SplitWS(s.MULTILIB_STRICT_DIRS.val) = <<>> THEN "None"
    ELSE "BlockFileType"

Trigger(label, protects, disables, patterns) ==
    [label |-> label, extra_protects |-> protects, extra_disables |-> disables,
     patterns |-> patterns]

\* generate_triggers(domain): the triggers yielded, in order
generate_triggers(s) ==
    LET protect  == split_if_str(split_if_str(settings_get(s.CONFIG_PROTECT, PyList(<<>>))))
        mask     == settings_get(s.CONFIG_PROTECT_MASK, PyList(<<>>))
        features == settings_get(s.FEATURES, PyList(<<>>))
        patterns == gt_patterns(gt_install_mask(s, features))
    IN  <<Trigger(T_env_update, <<>>, <<>>, <<>>),
          Trigger(T_ConfigProtectInstall, py_iter(protect), py_iter(mask), <<>>),
          Trigger(T_ConfigProtectUninstall, <<>>, <<>>, <<>>)>>
        \o (IF py_in(F_collision_protect, features)
            THEN <<Trigger(T_collision_protect, py_iter(protect), py_iter(mask), <<>>)>>
            ELSE <<>>)
        \o (IF py_in(F_multilib_strict, features)
            THEN <<Trigger(register_multilib_strict_trigger(s), <<>>, <<>>, <<>>)>>
            ELSE <<>>)
        \o (IF py_in(F_sfperms, features)
            THEN <<Trigger(T_SFPerms, <<>>, <<>>, <<>>)>> ELSE <<>>)
        \o <<Trigger(T_symdir_protect, py_iter(protect), py_iter(mask), <<>>)>>
        \o (IF patterns # <<>>
            THEN <<Trigger("PruneFiles", <<>>, <<>>, patterns)>> ELSE <<>>)
        \o <<Trigger("InfoRegen", <<>>, <<>>, <<>>)>>

F_decoy == <<"-","s","f","p","e","r","m","s">>
P_x_raw == <<"/","x","/">>
P_y == <<"/","y">>
S_lib == <<"l","i","b">>
S_deny == <<"d">>
P_etc_m_f == <<"/","e","t","c","/","m","/","f">>
P_u_s_h == <<"/","u","/","s","/","h">>
P_v_f == <<"/","v","/","f">>

\* the feature names in the order the domain lists them
GenFeatureOrder == <<F_decoy, F_sfperms, F_nodoc, F_collision_protect, F_noman, F_multilib_strict>>

FeatureList(S) == SelectSeq(GenFeatureOrder, LAMBDA f : f \in S)

\* CONFIG_PROTECT and CONFIG_PROTECT_MASK: unset, a string, or a list;
\* each with the prefixes it lists
GenProtects ==
    { [v |-> Unset, listed |-> {}],
      [v |-> PyStr(Join(<<P_u, P_o_raw>>, <<" ">>)), listed |-> {P_u, P_o_raw}],
      [v |-> PyList(<<P_u>>), listed |-> {P_u}] }

GenMasks ==
    { [v |-> Unset, listed |-> {}],
      [v |-> PyStr(Join(<<P_etc_m, P_u_s_raw>>, <<" ">>)), listed |-> {P_etc_m, P_u_s_raw}],
      [v |-> PyStr(P_etc_m), listed |-> {P_etc_m}],
      [v |-> PyList(<<P_etc_m>>), listed |-> {P_etc_m}] }

GenInstallMasks ==
    { Unset, PyStr(<<>>), PyStr(<<" ">>), PyStr(P_x_raw),
      PyStr(Join(<<P_x_raw, P_y>>, <<" ">>)) }

GenMultilib == { [dirs |-> Unset, deny |-> Unset],
                 [dirs |-> PyStr(S_lib), deny |-> PyStr(S_deny)],
                 [dirs |-> PyStr(<<" ">>), deny |-> PyStr(S_deny)] }

GenLocs == { P_etc_f, P_etc_m_f, P_u_g, P_u_s_h, P_v_f }

InitGen ==
    /\ pc = "call"
    /\ mode = "none" /\ offset = Sep
    /\ livefs = {} /\ warnings = <<>> /\ raised = NoError /\ written = <<>>
    /\ NoCsets
    /\ envd = EnvdOf(<<>>, <<>>)
    /\ extra_protects = <<>> /\ extra_disables = <<>>
    /\ \E p \in GenProtects, m \in GenMasks, im \in GenInstallMasks,
          ml \in GenMultilib, fs \in SUBSET Range(GenFeatureOrder),
          unset \in BOOLEAN :
           /\ unset => fs = {}
           /\ args = [settings |->
                        [CONFIG_PROTECT |-> p.v, CONFIG_PROTECT_MASK |-> m.v,
                         FEATURES |-> IF unset THEN Unset ELSE PyList(FeatureList(fs)),
                         INSTALL_MASK |-> im,
                         MULTILIB_STRICT_DIRS |-> ml.dirs,
                         MULTILIB_STRICT_DENY |-> ml.deny],
                      enabled |-> fs,
                      protect_listed |-> p.listed,
                      mask_listed |-> m.listed]
    /\ ret = <<>> /\ frame = <<>>

\* list(generate_triggers(domain))
CallGenerateTriggers ==
    /\ pc = "call"
    /\ ret' = generate_triggers(args.settings)
    /\ pc' = "built"
    /\ UNCHANGED <<written, frame, args, engine_vars, cset_vars>>

\* the triggers that build a config-protect filter when they run
FilterTriggers == {T_ConfigProtectInstall, T_collision_protect, T_ConfigProtectUninstall}

\* the filter a built trigger makes: ConfigProtectInstall and collision_protect
\* pass the extra_protects / extra_disables they were built with,
\* ConfigProtectUninstall passes the offset alone
trigger_filter(t) ==
    IF t.label = T_ConfigProtectUninstall
    THEN gen_config_protect_filter(offset, <<>>, <<>>)
    ELSE gen_config_protect_filter(offset, t.extra_protects, t.extra_disables)

\* each built trigger that makes a config-protect filter is asked about one
\* location
TriggerFilter ==
    /\ pc = "built"
    /\ \E loc \in GenLocs :
         frame' = [location |-> loc,
                   protected |->
                      [l \in {ret[i].label : i \in DOMAIN ret} \cap FilterTriggers |->
                          \E i \in DOMAIN ret :
                              /\ ret[i].label = l
                              /\ filter_match(trigger_filter(ret[i]), loc)]]
    /\ pc' = "done"
    /\ UNCHANGED <<written, ret, args, engine_vars, cset_vars>>

NextGen == CallGenerateTriggers \/ TriggerFilter

SpecGen == InitGen /\ [][NextGen]_vars

GenLabels == {ret[i].label : i \in DOMAIN ret}

TimesYielded(label) == Cardinality({i \in DOMAIN ret : ret[i].label = label})

\* INSTALL_MASK holds a character that is not a blank
InstallMaskNamesAPath ==
    \E i \in DOMAIN args.settings.INSTALL_MASK.val :
        args.settings.INSTALL_MASK.val[i] # " "

C28_ProtectAndMaskAsListed ==
    pc = "done" =>
        \A l \in DOMAIN frame.protected \cap {T_ConfigProtectInstall, T_collision_protect} :
            (frame.protected[l] <=>
                /\ \E p \in args.protect_listed \cup {P_etc} : LiesUnder(frame.location, p)
                /\ ~ \E m \in args.mask_listed : LiesUnder(frame.location, m))

-----------------------------------------------------------------------------
(* collision_protect.trigger and the content sets it is handed *)

-----------------------------------------------------------------------------
(* SpecOffset: ConfigProtectInstall at pre_merge under engine offsets *)

P_r == <<"/","r">>

\* the engine offsets: the root and an alternate root
Offsets == {Sep, P_r}

\* the path of an install-set location on the filesystem under offset
UnderOffset(off, loc) == pjoin(off, LStrip(loc, "/"))

InitOffset ==
    /\ pc = "pre_merge"
    /\ envd = <<>>
    /\ warnings = <<>> /\ raised = NoError /\ written = <<>> /\ renames = {}
    /\ uninstall = {} /\ uninstall_existing = {} /\ new_cset = {} /\ old_cset = {}
    /\ NoCall
    /\ mode = "install"
    /\ \E off \in Offsets, nF \in 1..NumContents, lF \in 0..NumContents,
          nG \in 0..1, cfg \in Configs :
       \E bk \in (IF lF = 0 THEN {[i \in 0..(MaxBackups - 1) |-> 0]}
                  ELSE [0..(MaxBackups - 1) -> 0..NumContents]) :
           /\ offset = off
           /\ extra_protects = cfg.protects
           /\ extra_disables = cfg.disables
           /\ livefs =
                {Dir(UnderOffset(off, P_etc)), Dir(UnderOffset(off, P_u))}
                \cup (IF off # Sep THEN {Dir(off)} ELSE {})
                \cup (IF lF > 0 THEN {File(UnderOffset(off, P_etc_f), lF)} ELSE {})
                \cup {File(pjoin(UnderOffset(off, P_etc), cfg_name(i, basename(P_etc_f))),
                           bk[i]) : i \in {j \in DOMAIN bk : bk[j] > 0}}
                \cup (IF nG > 0 THEN {File(UnderOffset(off, P_u_g), 2)} ELSE {})
           /\ install =
                {Dir(P_etc), File(P_etc_f, nF)}
                \cup (IF nG > 0 THEN {Dir(P_u), File(P_u_g, 1)} ELSE {})
           /\ install_pre = install
           /\ install_existing =
                {Dir(P_etc)}
                \cup (IF lF > 0 THEN {File(P_etc_f, lF)} ELSE {})
                \cup (IF nG > 0 THEN {Dir(P_u), File(P_u_g, 2)} ELSE {})

NextOffset == PreMerge

SpecOffset == InitOffset /\ [][NextOffset]_vars

-----------------------------------------------------------------------------
(* SFPerms.trigger: what it leaves alone *)

\* the single bits of a mode
ModeBits == {2^k : k \in 0..11}

\* C31: SFPerms sets no mode bit that was clear, changes no bit other than
\* group-read and world-read, changes no location, checksum or kind, leaves
\* every entry that is not a regular file as it was, and emits one warning
\* for each mode change it records, about the entry the change is for.
C31_SFPermsFrame ==
    pc = "done" =>
        /\ Locations(new_cset) = Locations(args.cset)
        /\ \A e \in args.cset :
              LET e2 == CsGet(new_cset, e.location)
              IN  /\ e2 = [e EXCEPT !.mode = e2.mode]
                  /\ e.kind # "file" => e2 = e
                  /\ \A b \in ModeBits :
                        /\ HasBit(e2.mode, b) => HasBit(e.mode, b)
                        /\ (HasBit(e.mode, b) /\ b \notin {S_IRGRP, S_IROTH})
                               => HasBit(e2.mode, b)
        /\ Len(warnings) = Len(frame.resets)
        /\ \A i \in DOMAIN frame.resets :
              /\ warnings[i].entry.location = frame.resets[i].location
              /\ warnings[i].entry \in args.cset
              /\ frame.resets[i].mode # warnings[i].entry.mode

\* C31 witness: a file of mode 06644 had two mode changes recorded and two
\* warnings emitted, next to a set-UID/set-GID directory that stayed as it was.
C31_Witness ==
    /\ pc = "done"
    /\ Len(frame.resets) = 2
    /\ Len(warnings) = 2
    /\ frame.resets[1].location = frame.resets[2].location
    /\ \E d \in new_cset : d.kind = "dir" /\ HasBit(d.mode, S_ISUID) /\ HasBit(d.mode, S_IROTH)

-----------------------------------------------------------------------------
(* SpecRerun: FixImageSymlinks.trigger run twice on one content set *)

\* FixImageSymlinks.trigger(engine, cset) called again on the set the first
\* call left; the set and the number of warnings before the call are kept
FixImageSymlinksAgain ==
    /\ pc = "done"
    /\ LET l == fix_links(new_cset, args.D)
       IN  /\ \E order \in Orders(l) :
                 warnings' = IF args.observer THEN warnings \o fix_warns(order)
                             ELSE warnings
           /\ new_cset' = CsUpdate(new_cset, {fix_entry(x, args.D) : x \in l})
    /\ frame' = [cset |-> new_cset, warned |-> Len(warnings)]
    /\ pc' = "again"
    /\ UNCHANGED <<written, mode, offset, envd, extra_protects, extra_disables, livefs,
                   raised, install, install_existing, old_cset, uninstall,
                   uninstall_existing, install_pre, renames, args, ret>>

NextRerun == FixImageSymlinksTrigger \/ FixImageSymlinksAgain

SpecRerun == InitSymlinks /\ [][NextRerun]_vars

\* a link into the image whose target names the staging root again right
\* after the prefix
NamesRootTwice(e) ==
    /\ PointsIntoImage(e)
    /\ StartsWith(Reanchored(Remainder(e)), StagingRoot \o <<"/">>)

\* C32 as stated: after one run no symlink of the new content set has a
\* target beginning with the staging root prefix, and a second run changes
\* nothing and emits no warning.
C32_Idempotent ==
    /\ pc = "done" => \A e \in new_cset : ~PointsIntoImage(e)
    /\ pc = "again" => (new_cset = frame.cset /\ Len(warnings) = frame.warned)

\* C32, amended: after one run a symlink's target begins with the staging
\* root prefix only when its original target named the staging root again
\* right after the prefix; when no symlink did, a second run changes nothing
\* and emits no warning.
C32_IdempotentUnlessNested ==
    /\ pc = "done" =>
          \A e \in new_cset :
              PointsIntoImage(e) => NamesRootTwice(CsGet(args.cset, e.location))
    /\ pc = "again" =>
          ((\A e \in args.cset : ~NamesRootTwice(e))
              => (new_cset = frame.cset /\ Len(warnings) = frame.warned))

\* C32 witness: the trigger ran twice with an observer on a set in which the
\* first run corrected a link, and the second run found nothing to correct.
C32_Witness ==
    /\ pc = "again"
    /\ args.observer
    /\ \A e \in args.cset : ~NamesRootTwice(e)
    /\ \E e \in args.cset : PointsIntoImage(e) /\ CsGet(new_cset, e.location) # e
    /\ Len(warnings) = 1
    /\ new_cset = frame.cset

\* C33: every item generate_triggers yields is a trigger, never None, also
\* when multilib-strict is enabled while MULTILIB_STRICT_DIRS or
\* MULTILIB_STRICT_DENY is unset or names nothing.
C33_NeverYieldsNone ==
    pc # "call" => \A i \in DOMAIN ret : ret[i].label # "None"

\* C34: for one domain configuration and env.d state ConfigProtectUninstall
\* treats a location as protected exactly when ConfigProtectInstall does.
C34_UninstallProtectsAlike ==
    pc = "done" =>
        frame.protected[T_ConfigProtectUninstall] = frame.protected[T_ConfigProtectInstall]

-----------------------------------------------------------------------------
(* SpecBackups: ConfigProtectInstall beside backups with high counters, and *)
(* the parse a later run makes of the name it generated                     *)

\* the counters of the ._cfgNNNN_f backups a directory may already hold
BackupCounters == {0, 8, 99, 9998, 9999}

InitBackups ==
    /\ pc = "pre_merge"
    /\ offset = Sep /\ envd = <<>>
    /\ warnings = <<>> /\ raised = NoError /\ written = <<>> /\ renames = {}
    /\ uninstall = {} /\ uninstall_existing = {} /\ new_cset = {} /\ old_cset = {}
    /\ NoCall
    /\ mode = "install"
    /\ \E bk \in SUBSET BackupCounters, nF \in 1..NumContents, lF \in 1..NumContents,
          cfg \in Configs :
           /\ extra_protects = cfg.protects
           /\ extra_disables = cfg.disables
           /\ livefs =
                {Dir(P_etc), File(P_etc_f, lF)}
                \cup {File(pjoin(P_etc, cfg_name(i, basename(P_etc_f))), 1) : i \in bk}
           /\ install = {Dir(P_etc), File(P_etc_f, nF)}
           /\ install_pre = install
           /\ install_existing = {Dir(P_etc), File(P_etc_f, lF)}

\* the parse of lines 225-233 applied to the name of a renamed entry:
\* count = int(x[5:9]), x[9] == "_", fn = x[10:], or the name is skipped
ParseBackupName ==
    /\ pc = "merge"
    /\ \E r \in renames :
         LET x == basename(r.new.location)
         IN  /\ ret' = IF cfg_parses(x)
                       THEN [skipped |-> FALSE, count |-> cfg_count_of(x),
                             fn |-> cfg_fn_of(x)]
                       ELSE [skipped |-> TRUE, count |-> 0, fn |-> <<>>]
             /\ frame' = [rename |-> r]
    /\ pc' = "parsed"
    /\ UNCHANGED <<written, args, engine_vars, cset_vars>>

NextBackups == PreMerge \/ ParseBackupName

SpecBackups == InitBackups /\ [][NextBackups]_vars

\* the counter the trigger's loop assigns to the entry it renames
AssignedCounter(r) ==
    cfg_counter(cfg_updates(cfg_dir_loc(r.old.location), basename(r.old.location)),
                0, cfg_dir_loc(r.old.location), r.old)

\* C35: every backup name the trigger generates is ._cfg, four decimal
\* digits, _ and the basename, and the parser of a later run reads the
\* assigned counter and the basename back from it.
C35_NameRoundTrip ==
    /\ pc \in {"merge", "parsed"} =>
          \A r \in renames :
              IsCfgNameOf(basename(r.new.location), basename(r.old.location))
    /\ pc = "parsed" =>
          /\ ~ret.skipped
          /\ ret.count = AssignedCounter(frame.rename)
          /\ ret.fn = basename(frame.rename.old.location)

-----------------------------------------------------------------------------
(* util/thread_pool.py: map_async *)

\* the items of the iterable are 1, 2, ...; empty_signal is told from them
\* by identity
EmptySignal == 0

\* at most this many items are in the iterable
MaxItems == 2

\* at most this many threads are asked for
MaxThreads == 2

Min(a, b) == IF a <= b THEN a ELSE b

\* parallelism: the threads asked for, cut to the number of items when the
\* iterable has a length
pool_parallelism(threads, has_len, n) ==
    IF has_len THEN Max(Min(n, threads), 0) ELSE threads

\* one sentinel short of the number of threads
sentinels_to_put_short(parallelism) == Max(parallelism - 1, 0)

\* the number of empty_signal objects the finally block puts
sentinels_to_put(parallelism) == parallelism

\* what a functor does with its iterator: takes every item, returns after
\* its first item, or raises on its first item
Functors == {"all", "stops", "raises"}

InitPool ==
    /\ pc = "call"
    /\ mode = "none" /\ offset = Sep /\ envd = <<>>
    /\ extra_protects = <<>> /\ extra_disables = <<>>
    /\ livefs = {} /\ warnings = <<>> /\ raised = NoError /\ written = <<>>
    /\ NoCsets
    /\ ret = <<>> /\ frame = <<>>
    /\ \E n \in 0..MaxItems, threads \in 0..MaxThreads, has_len \in BOOLEAN,
          functor \in Functors :
       \E raise_at \in 0..(n + 1) :
           /\ has_len => raise_at = 0
           /\ args = [iterable |-> [i \in 1..n |-> i], has_len |-> has_len,
                      threads |-> threads, functor |-> functor,
                      raise_at |-> raise_at]

\* lines 27-56: the queue, the kill event and the thread objects are made
PoolSetup ==
    /\ pc = "call"
    /\ frame' = [parallelism |-> pool_parallelism(args.threads, args.has_len,
                                                  Len(args.iterable)),
                 q |-> <<>>, kill |-> FALSE, fed |-> 0, sent |-> 0, joined |-> 0,
                 exc |-> FALSE,
                 w |-> [i \in 1..pool_parallelism(args.threads, args.has_len,
                                                  Len(args.iterable)) |->
                           [st |-> "new", got |-> <<>>, sentinels |-> 0]]]
    /\ pc' = "start"
    /\ UNCHANGED <<written, ret, args, engine_vars, cset_vars>>

\* lines 60-61: the threads are started in order
PoolStart ==
    /\ pc = "start"
    /\ IF \E i \in DOMAIN frame.w : frame.w[i].st = "new"
       THEN LET i == CHOOSE j \in DOMAIN frame.w :
                        /\ frame.w[j].st = "new"
                        /\ \A k \in DOMAIN frame.w : frame.w[k].st = "new" => j <= k
            IN  /\ frame' = [frame EXCEPT !.w[i].st = "check"]
                /\ pc' = pc
       ELSE /\ frame' = frame
            /\ pc' = "feed"
    /\ UNCHANGED <<written, ret, args, engine_vars, cset_vars>>

\* lines 63-64: the next item of the iterable is put on the queue
PoolFeedPut ==
    /\ pc = "feed"
    /\ frame.fed < Len(args.iterable)
    /\ args.raise_at # frame.fed + 1
    /\ frame' = [frame EXCEPT !.q = Append(@, args.iterable[frame.fed + 1]),
                              !.fed = @ + 1]
    /\ UNCHANGED <<pc, written, ret, args, engine_vars, cset_vars>>

\* the iterable is exhausted: the try block ends
PoolFeedEnd ==
    /\ pc = "feed"
    /\ frame.fed = Len(args.iterable)
    /\ args.raise_at # frame.fed + 1
    /\ pc' = "finally"
    /\ UNCHANGED <<frame, written, ret, args, engine_vars, cset_vars>>

\* lines 65-67: the iterable raises; kill.set(), and the exception is
\* re-raised through the finally block
PoolFeedRaise ==
    /\ pc = "feed"
    /\ args.raise_at = frame.fed + 1
    /\ frame' = [frame EXCEPT !.kill = TRUE, !.exc = TRUE]
    /\ pc' = "finally"
    /\ UNCHANGED <<written, ret, args, engine_vars, cset_vars>>

\* lines 69-70: one empty_signal per thread is put
PoolPutSentinel ==
    /\ pc = "finally"
    /\ IF frame.sent < sentinels_to_put(frame.parallelism)
       THEN /\ frame' = [frame EXCEPT !.q = Append(@, EmptySignal), !.sent = @ + 1]
            /\ pc' = pc
       ELSE /\ frame' = frame
            /\ pc' = "join"
    /\ UNCHANGED <<written, ret, args, engine_vars, cset_vars>>

WorkerOver(i) == frame.w[i].st \in {"exited", "died"}

\* line 72, reclaim_threads: the threads are joined in order; a join returns
\* when its thread is over
PoolJoin ==
    /\ pc = "join"
    /\ frame.joined < frame.parallelism
    /\ WorkerOver(frame.joined + 1)
    /\ frame' = [frame EXCEPT !.joined = @ + 1]
    /\ UNCHANGED <<pc, written, ret, args, engine_vars, cset_vars>>

\* the finally block is over: the exception of the feed goes on to the
\* caller, or line 74 is reached
PoolJoined ==
    /\ pc = "join"
    /\ frame.joined = frame.parallelism
    /\ pc' = IF frame.exc THEN "raised" ELSE "assert"
    /\ UNCHANGED <<frame, written, ret, args, engine_vars, cset_vars>>

\* line 74: assert q.empty()
PoolAssert ==
    /\ pc = "assert"
    /\ pc' = IF frame.q = <<>> THEN "returned" ELSE "AssertionError"
    /\ UNCHANGED <<frame, written, ret, args, engine_vars, cset_vars>>

\* iter_queue, line 46: while not kill.isSet()
WorkerCheck(i) ==
    /\ pc # "call"
    /\ i \in DOMAIN frame.w
    /\ frame.w[i].st = "check"
    /\ frame' = [frame EXCEPT !.w[i].st =
                    IF frame.kill THEN "exited" ELSE "get"]
    /\ UNCHANGED <<pc, written, ret, args, engine_vars, cset_vars>>

\* iter_queue, lines 47-50: the blocking qlist.get(); empty_signal ends the
\* iterator and with it the functor, anything else is yielded to the functor
WorkerGet(i) ==
    /\ pc # "call"
    /\ i \in DOMAIN frame.w
    /\ frame.w[i].st = "get"
    /\ frame.q # <<>>
    /\ frame' =
         IF Head(frame.q) = EmptySignal
         THEN [frame EXCEPT !.q = Tail(@), !.w[i].sentinels = @ + 1,
                            !.w[i].st = "exited"]
         ELSE [frame EXCEPT !.q = Tail(@), !.w[i].got = Append(@, Head(frame.q)),
                            !.w[i].st = "item"]
    /\ UNCHANGED <<pc, written, ret, args, engine_vars, cset_vars>>

\* the functor's loop body with the yielded item: it asks for the next
\* item, returns, or raises
WorkerItem(i) ==
    /\ pc # "call"
    /\ i \in DOMAIN frame.w
    /\ frame.w[i].st = "item"
    /\ frame' = [frame EXCEPT !.w[i].st =
                    CASE args.functor = "all" -> "check"
                      [] args.functor = "stops" -> "exited"
                      [] OTHER -> "died"]
    /\ UNCHANGED <<pc, written, ret, args, engine_vars, cset_vars>>

MainStep ==
    \/ PoolSetup \/ PoolStart \/ PoolFeedPut \/ PoolFeedEnd \/ PoolFeedRaise
    \/ PoolPutSentinel \/ PoolJoin \/ PoolJoined \/ PoolAssert

WorkerStep(i) == WorkerCheck(i) \/ WorkerGet(i) \/ WorkerItem(i)

NextPool == MainStep \/ \E i \in 1..MaxThreads : WorkerStep(i)

SpecPool == InitPool /\ [][NextPool]_vars

\* every thread that can run is run in the end
SpecPoolFair ==
    /\ SpecPool
    /\ WF_vars(MainStep)
    /\ \A i \in 1..MaxThreads : WF_vars(WorkerStep(i))

PoolOver == pc \in {"returned", "raised", "AssertionError"}

\* C36: once map_async reaches its last statement with no exception from the
\* feed, the queue is empty: assert q.empty() does not fail.
C36_AssertHolds ==
    pc # "AssertionError"

\* the places <<worker, position>> at which a functor was handed something
Handed == {h \in (DOMAIN frame.w) \X (1..(MaxItems + 1)) : h[2] <= Len(frame.w[h[1]].got)}

TimesHanded(item) == Cardinality({h \in Handed : frame.w[h[1]].got[h[2]] = item})

\* the feed raised nothing and the functors take every item they are given
QuietRun == args.raise_at = 0 /\ args.functor = "all"

\* C37: in a run whose feed raises nothing and whose workers consume their
\* iterators to the end, no item is handed out twice, the sentinel is never
\* handed to a functor, and when map_async is over every item has been
\* handed to one worker and every worker has consumed one sentinel.
C37_ExactlyOnce ==
    (pc # "call" /\ QuietRun) =>
        /\ \A x \in Range(args.iterable) : TimesHanded(x) <= 1
        /\ TimesHanded(EmptySignal) = 0
        /\ \A i \in DOMAIN frame.w : frame.w[i].sentinels <= 1
        /\ PoolOver =>
              /\ \A x \in Range(args.iterable) : TimesHanded(x) = 1
              /\ \A i \in DOMAIN frame.w : frame.w[i].sentinels = 1

\* the workers that were started
Started == {i \in DOMAIN frame.w : frame.w[i].st # "new"}

\* C38: map_async ends, whether the feed completes or raises; when it is
\* over every started worker has left its queue read and exited and all
\* threads have been joined; an exception of the feed has set the kill flag
\* and reaches the caller.
C38_Terminates ==
    /\ <>PoolOver
    /\ [](PoolOver =>
             /\ Started = DOMAIN frame.w
             /\ \A i \in Started : WorkerOver(i)
             /\ frame.joined = frame.parallelism
             /\ (args.raise_at # 0) <=> (pc = "raised")
             /\ pc = "raised" => frame.kill)

\* C38 witness: the feed raised after an item was put, two workers were
\* running, one of them was handed the item, and map_async re-raised after
\* both were joined.
C38_Witness ==
    /\ pc = "raised"
    /\ frame.kill
    /\ frame.parallelism = 2
    /\ frame.joined = 2
    /\ \E i \in DOMAIN frame.w : frame.w[i].got # <<>>
    /\ \E i \in DOMAIN frame.w : frame.w[i].sentinels = 1

-----------------------------------------------------------------------------
(* util/commandline.py: ArgumentParser.parse_args and the delayed values *)

\* what a namespace attribute holds: a plain value, a DelayedValue, or a
\* DelayedDefault made by DelayedDefault.wipe(attrs, priority)
PlainValue == [kind |-> "plain", priority |-> 0, wipes |-> {}, raises |-> "none"]

Delayed(priority, raises) ==
    [kind |-> "delayed", priority |-> priority, wipes |-> {}, raises |-> raises]

Wipe(attrs, priority) ==
    [kind |-> "default", priority |-> priority, wipes |-> attrs, raises |-> "none"]

\* the exceptions parse_args turns into the parser's error exit
CaughtErrors == {"TypeError", "ValueError", "ConfigError", "ArgumentError"}

Restrict(f, S) == [x \in S |-> f[x]]

\* isinstance(val, DelayedDefault)
is_DelayedDefault(val) == val.kind = "default"

\* isinstance(val, DelayedValue): DelayedDefault is a subclass
is_DelayedValue(val) == val.kind \in {"default", "delayed"}

\* any order at all
sorted_by_priority_unsorted(attrs, ns) == Orders(attrs)

\* sorted(i, key=lambda val: val[1].priority) over the items of a dict: the
\* orders of the attributes that ascend in priority
sorted_by_priority(attrs, ns) ==
    {o \in Orders(attrs) :
        \A i, j \in DOMAIN o : i < j => ns[o[i]].priority <= ns[o[j]].priority}

\* DelayedDefault._wipe(attrs, namespace, triggering_attr)
delayed_default_wipe(ns, val, attr) ==
    Restrict(ns, DOMAIN ns \ (val.wipes \cup {attr}))

\* what invoking the delayed value of attr raises: the exception it was
\* made to raise; the domain loader raises ValueError without a config
delayed_raises(ns, val, attr) ==
    IF attr = "domain" /\ "config" \notin DOMAIN ns THEN "ValueError"
    ELSE val.raises

\* priorities of a query value and of the suppressing defaults
QueryPriorities == {10, 100}
WipePriorities == {1, 30}

ParseNamespaces ==
    LET opt(name, vals) == {<<>>} \cup {(name :> v) : v \in vals}
    IN  { ("verbose" :> PlainValue) @@ c @@ d @@ q @@ a @@ b @@ f :
            c \in opt("config", {Delayed(0, "none")}),
            d \in opt("domain", {Delayed(20, "none")}),
            q \in opt("query", {Delayed(p, r) :
                        p \in QueryPriorities,
                        r \in CaughtErrors \cup {"none", "KeyError"}}),
            a \in opt("off_a", {Wipe(w, p) :
                        w \in {{}, {"query"}, {"config", "domain"}, {"off_b"}},
                        p \in WipePriorities}),
            b \in opt("off_b", {Wipe(w, 1) : w \in {{}, {"domain"}}}),
            f \in opt("final_check", {PlainValue}) }

InitParse ==
    /\ pc = "call"
    /\ mode = "none" /\ offset = Sep /\ envd = <<>>
    /\ extra_protects = <<>> /\ extra_disables = <<>>
    /\ livefs = {} /\ warnings = <<>> /\ raised = NoError /\ written = <<>>
    /\ NoCsets
    /\ ret = <<>>
    /\ \E ns \in ParseNamespaces :
          /\ args = [namespace |-> ns]
          /\ frame = [ns |-> ns, todo |-> <<>>, log |-> <<>>, final_checked |-> FALSE]

\* lines 700-702: the DelayedDefault values are found and sorted
ParseScanDefaults ==
    /\ pc = "call"
    /\ \E o \in sorted_by_priority(
                  {a \in DOMAIN frame.ns : is_DelayedDefault(frame.ns[a])}, frame.ns) :
          frame' = [frame EXCEPT !.todo = [i \in DOMAIN o |->
                                              [attr |-> o[i], val |-> frame.ns[o[i]]]]]
    /\ pc' = "defaults"
    /\ UNCHANGED <<written, ret, args, engine_vars, cset_vars>>

\* line 703: functor(args, attr) for the next DelayedDefault
ParseRunDefault ==
    /\ pc = "defaults"
    /\ frame.todo # <<>>
    /\ LET t == Head(frame.todo)
       IN  frame' = [frame EXCEPT
                       !.todo = Tail(@),
                       !.ns = delayed_default_wipe(frame.ns, t.val, t.attr),
                       !.log = Append(@, [attr |-> t.attr, val |-> t.val,
                                          pass |-> 1, config_ready |-> FALSE])]
    /\ UNCHANGED <<pc, written, ret, args, engine_vars, cset_vars>>

\* lines 706-709: the rescan for DelayedValue instances, sorted
ParseScanDelayed ==
    /\ pc = "defaults"
    /\ frame.todo = <<>>
    /\ \E o \in sorted_by_priority(
                  {a \in DOMAIN frame.ns : is_DelayedValue(frame.ns[a])}, frame.ns) :
          frame' = [frame EXCEPT !.todo = [i \in DOMAIN o |->
                                              [attr |-> o[i], val |-> frame.ns[o[i]]]]]
    /\ pc' = "delayed"
    /\ UNCHANGED <<written, ret, args, engine_vars, cset_vars>>

\* self.error(message): self.exit(2, ...)
parser_error == [status |-> 2]

\* lines 708-715: delayed(args, attr) for the next delayed value; the four
\* caught exceptions end in self.error, any other goes on to the caller
ParseRunDelayed ==
    /\ pc = "delayed"
    /\ frame.todo # <<>>
    /\ LET t == Head(frame.todo)
           e == delayed_raises(frame.ns, t.val, t.attr)
           entry == [attr |-> t.attr, val |-> [t.val EXCEPT !.raises = e], pass |-> 2,
                     config_ready |-> /\ "config" \in DOMAIN frame.ns
                                      /\ frame.ns["config"].kind = "plain"]
       IN  IF e = "none"
           THEN /\ frame' = [frame EXCEPT
                               !.todo = Tail(@),
                               !.ns = IF t.attr \in DOMAIN frame.ns
                                      THEN [frame.ns EXCEPT ![t.attr] = PlainValue]
                                      ELSE (t.attr :> PlainValue) @@ frame.ns,
                               !.log = Append(@, entry)]
                /\ UNCHANGED <<pc, ret, raised>>
           ELSE /\ frame' = [frame EXCEPT !.todo = Tail(@), !.log = Append(@, entry)]
                /\ IF e \in CaughtErrors
                   THEN pc' = "exit" /\ ret' = parser_error /\ UNCHANGED raised
                   ELSE /\ pc' = "raised"
                        /\ raised' = [type |-> e, paths |-> <<>>]
                        /\ UNCHANGED ret
    /\ UNCHANGED <<written, args, mode, offset, envd, extra_protects, extra_disables,
                   livefs, warnings, cset_vars>>

\* lines 717-721: final_check is taken out of the namespace and called
ParseFinish ==
    /\ pc = "delayed"
    /\ frame.todo = <<>>
    /\ frame' = [frame EXCEPT
                   !.ns = Restrict(frame.ns, DOMAIN frame.ns \ {"final_check"}),
                   !.final_checked = "final_check" \in DOMAIN frame.ns]
    /\ pc' = "returned"
    /\ UNCHANGED <<written, ret, args, engine_vars, cset_vars>>

NextParse ==
    \/ ParseScanDefaults \/ ParseRunDefault \/ ParseScanDelayed
    \/ ParseRunDelayed \/ ParseFinish

SpecParse == InitParse /\ [][NextParse]_vars

\* the attributes some DelayedDefault of the parsed namespace wipes
WipedAttrs ==
    UNION {args.namespace[a].wipes \cup {a} :
              a \in {x \in DOMAIN args.namespace : is_DelayedDefault(args.namespace[x])}}

InvokedAt(pass) == {frame.log[i].attr : i \in {j \in DOMAIN frame.log : frame.log[j].pass = pass}}

\* C39: parse_args invokes every DelayedDefault of the namespace, in
\* ascending priority, before any other delayed value; then the delayed
\* values still in the namespace, in ascending priority, each once; config
\* is resolved when a domain value reads it; and a TypeError, ValueError,
\* ConfigError or ArgumentError out of a delayed value ends in the error exit
\* with status 2.
C39_DelayedOrder ==
    /\ \A i, j \in DOMAIN frame.log :
          i < j =>
             /\ frame.log[i].pass <= frame.log[j].pass
             /\ frame.log[i].attr # frame.log[j].attr
             /\ frame.log[i].pass = frame.log[j].pass
                   => frame.log[i].val.priority <= frame.log[j].val.priority
    /\ \A i \in DOMAIN frame.log :
          /\ (frame.log[i].pass = 1) <=> is_DelayedDefault(frame.log[i].val)
          /\ (frame.log[i].attr = "domain" /\ "config" \in DOMAIN args.namespace
                 /\ "config" \notin WipedAttrs)
                => frame.log[i].config_ready
          /\ frame.log[i].val.raises \in CaughtErrors
                => (i = Len(frame.log) /\ pc = "exit")
    /\ pc \in {"delayed", "returned", "exit", "raised"} =>
          InvokedAt(1) = {a \in DOMAIN args.namespace : is_DelayedDefault(args.namespace[a])}
    /\ pc = "returned" =>
          InvokedAt(2) = {a \in DOMAIN args.namespace :
                             is_DelayedValue(args.namespace[a])} \ WipedAttrs
    /\ pc = "exit" =>
          /\ ret = [status |-> 2]
          /\ frame.log # <<>>
          /\ frame.log[Len(frame.log)].val.raises \in CaughtErrors

\* C39 witness: a suppressing default ran first, then config (priority 0),
\* then the domain value (priority 20) that found config resolved, then a
\* query value (priority 100) whose TypeError ended parsing in the error
\* exit.
C39_Witness ==
    /\ pc = "exit"
    /\ ret.status = 2
    /\ Len(frame.log) = 4
    /\ frame.log[1].pass = 1
    /\ frame.log[2].attr = "config"
    /\ frame.log[3].attr = "domain" /\ frame.log[3].config_ready
    /\ frame.log[4].attr = "query" /\ frame.log[4].val.raises = "TypeError"

====
